---- MODULE Spec2Model ----
(***************************************************************************)
(* Table and page decision pipeline of the markdown filter:                *)
(*   grid -> detect_table_heading -> analyze_table_content                 *)
(*        -> decide_table_quality / decide_table_quality_with_context      *)
(*        -> collect_document_data -> is_page_gibberish.                   *)
(*                                                                         *)
(* A cell text is a bold flag plus a sequence of space-separated items of  *)
(* a fixed vocabulary; the regular expressions of check_markdown.py are    *)
(* modelled by what they extract from each item.  Python indices are       *)
(* 0-based, sequences here are 1-based: row 0 / column 0 of the code is    *)
(* element 1 here.                                                         *)
(***************************************************************************)
EXTENDS Integers, Sequences, FiniteSets, TLC

\* ------------------------------------------------------------------ bounds
MaxTables == 2
MaxRows == 3
MaxScan == 1
MaxDocTables == 1
MaxTrs == 2
MaxDocs == 2
MaxVotes == 4
MaxLines == 3

\* ------------------------------------------------------- program constants
MEANINGFUL_WORDS_THRESHOLD == 3
WORDS_PER_CELL_USEFUL == 5
WORDS_OUTSIDE_TABLES_THRESHOLD == 30
HEADER_HEAVY_PERCENT == 70
HEADER_MAX_WORDS == 4
SMALL_KV_MAX_ROWS == 4
SMALL_KV_COLS == 2

\* ---------------------------------------------------------------- helpers
RECURSIVE SeqSum(_)
SeqSum(s) == IF s = <<>> THEN 0 ELSE Head(s) + SeqSum(Tail(s))

RECURSIVE Flatten(_)
Flatten(ss) == IF ss = <<>> THEN <<>> ELSE Head(ss) \o Flatten(Tail(ss))

Max2(a, b) == IF a >= b THEN a ELSE b

RECURSIVE SeqMax(_)
SeqMax(s) == IF s = <<>> THEN 0 ELSE Max2(Head(s), SeqMax(Tail(s)))

Count(S) == Cardinality(S)

\* the sequence s with its elements computed once
Eager(s) == s \o <<>>

\* ------------------------------------------------------------- cell texts
URL_ITEM == "https://example.com/doc"
FILE_ITEM == "report.pdf"
IMAGE_ITEM == "pic.png"
MENTION_ITEM == "[~u1]"
EG_ITEM == "e.g."

\* re.findall(r'\b\w+\b', item): the words one item contributes
WordsOfItem(it) ==
    CASE it = URL_ITEM     -> <<"https", "example", "com", "doc">>
      [] it = FILE_ITEM    -> <<"report", "pdf">>
      [] it = IMAGE_ITEM   -> <<"pic", "png">>
      [] it = MENTION_ITEM -> <<"u1">>
      [] it = EG_ITEM      -> <<"e", "g">>
      [] OTHER             -> <<it>>

\* a comparison that forgets to lower-case the word
LowerIdentity(w) == w

\* str.lower() on the words of the vocabulary
Lower(w) ==
    CASE w = "Name"   -> "name"
      [] w = "Alice"  -> "alice"
      [] w = "Status" -> "status"
      [] w = "Done"   -> "done"
      [] OTHER        -> w

PLACEHOLDER_WORDS ==
    {"draft", "tbd", "yes", "no", "none", "n/a", "na", "todo", "pending",
     "ok", "done", "wip", "placeholder", "example", "sample", "test",
     "tmp", "temp", "xxx", "yyy", "zzz", "abc", "tba", "high", "low", "medium",
     "medium-high", "medium-low", "high-medium", "low-medium", "high-low",
     "low-high", "status"}

\* the vocabulary words for which word_clean.isdigit() holds
DigitWords == {"1", "2"}
\* the vocabulary words matching the strict roman-numeral pattern
RomanWords == {"ii", "iv", "xxx"}
\* single alphabetic characters of the vocabulary
SingleLetterWords == {"e", "g"}
\* runs of one repeated letter, length <= 3
RepeatedLetterWords == {"aa"}

is_index_pattern(word) ==
    LET word_clean == Lower(word)
    IN  \/ word_clean \in DigitWords
        \/ word_clean \in RomanWords
        \/ word_clean \in SingleLetterWords
        \/ word_clean \in RepeatedLetterWords

Cell(b, its) == [bold |-> b, items |-> its]
EmptyCell == Cell(FALSE, <<>>)

AllWords(cell) == Flatten(Eager([i \in 1..Len(cell.items) |-> WordsOfItem(cell.items[i])]))

CountItem(cell, it) == Count({i \in 1..Len(cell.items) : cell.items[i] = it})

\* the classification with the vocabulary test in front of the index test
word_bucket_placeholder_first(word) ==
    IF Lower(word) \in PLACEHOLDER_WORDS THEN "placeholder"
    ELSE IF is_index_pattern(word) THEN "index"
    ELSE "meaningful"

\* check_markdown.py 490-501: the list a word is appended to
word_bucket(word) ==
    IF is_index_pattern(word) THEN "index"
    ELSE IF Lower(word) \in PLACEHOLDER_WORDS THEN "placeholder"
    ELSE "meaningful"

cell_metrics(cell) ==
    LET is_empty == Len(cell.items) = 0
        all_words == IF is_empty THEN <<>> ELSE AllWords(cell)
        idx == {i \in 1..Len(all_words) : word_bucket(all_words[i]) = "index"}
        ph  == {i \in 1..Len(all_words) : word_bucket(all_words[i]) = "placeholder"}
        mw  == {i \in 1..Len(all_words) : word_bucket(all_words[i]) = "meaningful"}
        links == CountItem(cell, URL_ITEM)
        images == CountItem(cell, IMAGE_ITEM)
        files == CountItem(cell, FILE_ITEM)
        mentions == CountItem(cell, MENTION_ITEM)
    IN  [words |-> Len(all_words),
         meaningful_words |-> Count(mw),
         placeholder_words |-> Count(ph) + Count(idx),
         index_words |-> Count(idx),
         links |-> links, images |-> images, files |-> files,
         mentions |-> mentions,
         empty |-> is_empty,
         has_useful_content |-> (Count(mw) >= 2 \/ links > 0 \/ images > 0
                                  \/ files > 0 \/ mentions > 0)]

\* ----------------------------------------------------------- table grids
NumRows(table) == Len(table)
NumCols(table) == SeqMax([r \in 1..Len(table) |-> Len(table[r])])

\* norm_table: every row padded with "" to the widest row
Normalize(table) ==
    LET cols == NumCols(table)
    IN  Eager([r \in 1..Len(table) |->
            Eager([c \in 1..cols |-> IF c <= Len(table[r]) THEN table[r][c] ELSE EmptyCell])])

is_bold_cell(cell) == Len(cell.items) > 0 /\ cell.bold

NonEmpty(cell) == Len(cell.items) > 0

\* the first row of the row headers when cell (0,0) is never skipped
start_row_always_zero(all_first_row_bold) == 0

\* check_markdown.py 370: skip cell (0,0) when the first row is bold
start_row_of(all_first_row_bold) == IF all_first_row_bold THEN 1 ELSE 0

detect_table_heading(table) ==
    LET rows == NumRows(table)
        cols == NumCols(table)
        norm_table == Normalize(table)
        first_row == norm_table[1]
        non_empty_first_row == {c \in 1..cols : NonEmpty(first_row[c])}
        all_first_row_bold ==
            /\ non_empty_first_row # {}
            /\ \A c \in non_empty_first_row : is_bold_cell(first_row[c])
        non_empty_first_col == {r \in 1..rows : NonEmpty(norm_table[r][1])}
        all_first_col_bold ==
            /\ non_empty_first_col # {}
            /\ \A r \in non_empty_first_col : is_bold_cell(norm_table[r][1])
        first_col_filled == Count(non_empty_first_col)
        second_col_filled == Count({r \in 1..rows : NonEmpty(norm_table[r][2])})
        is_key_value_table ==
            /\ cols = 2 /\ ~all_first_col_bold /\ ~all_first_row_bold
            /\ 2 * first_col_filled >= rows
            /\ 2 * second_col_filled <= rows
        non_empty_cells == Count(non_empty_first_row)
        first_row_looks_like_headers ==
            \A c \in non_empty_first_row :
                /\ Len(AllWords(first_row[c])) <= HEADER_MAX_WORDS
                /\ ~(~first_row[c].bold /\ Head(first_row[c].items) = EG_ITEM)
        promoted == /\ ~all_first_row_bold
                    /\ rows >= 1
                    /\ first_row_looks_like_headers
                    /\ non_empty_cells >= 2
        has_column_headers == all_first_row_bold \/ promoted
        start_row == start_row_of(all_first_row_bold)
        row_headers == IF all_first_col_bold \/ is_key_value_table
                       THEN [k \in 1..(rows - start_row) |-> start_row + k - 1]
                       ELSE <<>>
        has_row_headers == row_headers # <<>>
    IN  IF rows = 0 \/ cols = 0
        THEN [column_headers |-> FALSE, row_headers |-> <<>>,
              heading_type |-> "none", is_key_value_table |-> FALSE]
        ELSE [column_headers |-> has_column_headers,
              row_headers |-> row_headers,
              heading_type |-> IF has_column_headers /\ has_row_headers THEN "both"
                               ELSE IF has_column_headers THEN "column"
                               ELSE IF has_row_headers THEN "row"
                               ELSE "none",
              is_key_value_table |-> is_key_value_table]

\* ------------------------------------------------- analyze_table_content
\* the header test that looks at the header row only
IsHeaderCell_row_only(headings, r, c) ==
    headings.heading_type \in {"column", "both"} /\ r = 1

\* a cell is a header cell when it lies in a detected header row or column
IsHeaderCell(headings, r, c) ==
    \/ headings.heading_type \in {"column", "both"} /\ r = 1
    \/ headings.heading_type \in {"row", "both"} /\ c = 1

\* check_markdown.py 684: round(filled / total * 100, 2), in hundredths of a
\* percent; no quotient of fewer than 32 cells falls on a rounding tie
Percentage(filled, total) ==
    IF total > 0 THEN (20000 * filled + total) \div (2 * total) ELSE 0

analyze_table_content(table) ==
    LET rows == NumRows(table)
        cols == NumCols(table)
        norm_table == Normalize(table)
        headings == detect_table_heading(table)
        grid == Eager([r \in 1..rows |->
                    Eager([c \in 1..cols |-> cell_metrics(norm_table[r][c])])])
        \* sum of a word field over the non-header cells of row r
        RowData(r, f) ==
            SeqSum([c \in 1..cols |->
                       IF IsHeaderCell(headings, r, c) THEN 0 ELSE grid[r][c][f]])
        \* sum of a field over all cells of row r, headers included
        RowAll(r, f) == SeqSum([c \in 1..cols |-> grid[r][c][f]])
        per_row == Eager([r \in 1..rows |->
                      [row_index |-> r - 1,
                       word_count |-> RowData(r, "words"),
                       meaningful_words |-> RowData(r, "meaningful_words"),
                       placeholder_words |-> RowData(r, "placeholder_words"),
                       links |-> RowAll(r, "links"),
                       images |-> RowAll(r, "images"),
                       files |-> RowAll(r, "files"),
                       mentions |-> RowAll(r, "mentions"),
                       empty_cell_count |-> Count({c \in 1..cols : grid[r][c].empty})]])
        Total(f) == SeqSum([r \in 1..rows |-> per_row[r][f]])
        filled_cells == rows * cols - Total("empty_cell_count")
    IN  IF rows = 0
        THEN [rows |-> 0, cols |-> 0, total_cells |-> 0, filled_cells |-> 0,
              fill_percentage |-> 0,
              words |-> 0, meaningful_words |-> 0, placeholder_words |-> 0,
              links |-> 0, images |-> 0, files |-> 0, mentions |-> 0,
              per_row_summaries |-> <<>>, cell_metrics_grid |-> <<>>,
              is_useful_table |-> FALSE,
              headings |-> [column_headers |-> FALSE, row_headers |-> <<>>,
                            heading_type |-> "none", is_key_value_table |-> FALSE]]
        ELSE [rows |-> rows, cols |-> cols,
              total_cells |-> rows * cols, filled_cells |-> filled_cells,
              fill_percentage |-> Percentage(filled_cells, rows * cols),
              words |-> Total("word_count"),
              meaningful_words |-> Total("meaningful_words"),
              placeholder_words |-> Total("placeholder_words"),
              links |-> Total("links"), images |-> Total("images"),
              files |-> Total("files"), mentions |-> Total("mentions"),
              per_row_summaries |-> per_row,
              cell_metrics_grid |-> grid,
              is_useful_table |->
                  \E r \in 1..rows : \E c \in 1..cols :
                      ~IsHeaderCell(headings, r, c) /\ grid[r][c].has_useful_content,
              headings |-> headings]

\* ------------------------------------------------ table_logic.py: checks
\* the priority check without its last branch
check_priority_content_no_mentions(analysis) ==
    IF analysis.links > 0
    THEN [found |-> TRUE, reason |-> "link(s) found (highest priority)"]
    ELSE IF analysis.files > 0
    THEN [found |-> TRUE, reason |-> "file(s) found (high priority)"]
    ELSE IF analysis.images > 0
    THEN [found |-> TRUE, reason |-> "image(s) found"]
    ELSE [found |-> FALSE, reason |-> "No priority content"]

\* the priority check without its first branch
check_priority_content_no_links(analysis) ==
    IF analysis.files > 0
    THEN [found |-> TRUE, reason |-> "file(s) found (high priority)"]
    ELSE IF analysis.images > 0
    THEN [found |-> TRUE, reason |-> "image(s) found"]
    ELSE IF analysis.mentions > 0
    THEN [found |-> TRUE, reason |-> "user mention(s) found"]
    ELSE [found |-> FALSE, reason |-> "No priority content"]

check_priority_content(analysis) ==
    IF analysis.links > 0
    THEN [found |-> TRUE, reason |-> "link(s) found (highest priority)"]
    ELSE IF analysis.files > 0
    THEN [found |-> TRUE, reason |-> "file(s) found (high priority)"]
    ELSE IF analysis.images > 0
    THEN [found |-> TRUE, reason |-> "image(s) found"]
    ELSE IF analysis.mentions > 0
    THEN [found |-> TRUE, reason |-> "user mention(s) found"]
    ELSE [found |-> FALSE, reason |-> "No priority content"]

\* rows after row 0 of the cell grid (the code skips row_idx == 0)
DataRowIdx(analysis) == 2..Len(analysis.cell_metrics_grid)

check_cell_word_count(analysis) ==
    LET grid == analysis.cell_metrics_grid
    IN  \E r \in DataRowIdx(analysis) : \E c \in 1..Len(grid[r]) :
            grid[r][c].meaningful_words > WORDS_PER_CELL_USEFUL

check_first_row_only_filled(analysis) ==
    LET per_row == analysis.per_row_summaries
        filled_data_rows ==
            Count({i \in 2..Len(per_row) :
                      per_row[i].meaningful_words > 0 \/ per_row[i].links > 0})
    IN  IF analysis.rows <= 1 THEN FALSE ELSE filled_data_rows = 0

\* columns (0-based, as in the code) holding a meaningful word below row 0
ColsWithContent(analysis) ==
    LET grid == analysis.cell_metrics_grid
    IN  {col_idx \in 0..(analysis.cols - 1) :
            \E r \in DataRowIdx(analysis) :
                /\ col_idx + 1 <= Len(grid[r])
                /\ grid[r][col_idx + 1].meaningful_words > 0}

check_first_column_only_filled(analysis) ==
    LET col_has_content == ColsWithContent(analysis)
    IN  IF analysis.cols <= 1 THEN FALSE
        ELSE Count(col_has_content) = 1 /\ 0 \in col_has_content

check_header_heavy_table(analysis) ==
    LET per_row == analysis.per_row_summaries
        header_words == per_row[1].meaningful_words
        data_words == SeqSum([i \in 1..(Len(per_row) - 1) |->
                                 per_row[i + 1].meaningful_words])
        total_meaningful == header_words + data_words
    IN  IF analysis.rows <= 1 \/ per_row = <<>> THEN FALSE
        ELSE IF total_meaningful = 0 THEN FALSE
        \* header_words / total_meaningful * 100 > 70
        ELSE header_words * 100 > HEADER_HEAVY_PERCENT * total_meaningful

check_single_row_or_column_filled(analysis) ==
    LET grid == analysis.cell_metrics_grid
        rows_with_content ==
            {r \in DataRowIdx(analysis) :
                \E c \in 1..Len(grid[r]) : grid[r][c].meaningful_words > 0}
        cols_with_content == ColsWithContent(analysis)
    IN  IF analysis.rows <= 1 \/ analysis.cols <= 1 THEN FALSE
        ELSE Count(rows_with_content) = 1 \/ Count(cols_with_content) = 1

\* ------------------------------------------------- decide_table_quality
Decision(d, reason, log) == [decision |-> d, reason |-> reason, decision_log |-> log]

\* the final rules with a strict threshold
meaningful_words_check_strict(meaningful_words, log) ==
    IF meaningful_words > MEANINGFUL_WORDS_THRESHOLD
    THEN Decision("USEFUL", "meaningful words found (>= threshold)", log)
    ELSE IF meaningful_words = 0
    THEN Decision("GIBBERISH", "No meaningful content found", log)
    ELSE Decision("CAN'T DECIDE", "Ambiguous: words below threshold", log)

\* table_logic.py 481-511: the final rules on the total of meaningful words
meaningful_words_check(meaningful_words, log) ==
    IF meaningful_words >= MEANINGFUL_WORDS_THRESHOLD
    THEN Decision("USEFUL", "meaningful words found (>= threshold)", log)
    ELSE IF meaningful_words = 0
    THEN Decision("GIBBERISH", "No meaningful content found", log)
    ELSE Decision("CAN'T DECIDE", "Ambiguous: words below threshold", log)

\* table_logic.py 403-481: the checks in the order the engine logs them
RULE_ORDER == <<"Priority Content", "Rich Cell", "First Row Only", "First Column Only",
                "Header Heavy", "Single Row/Col", "Meaningful Words">>

decide_table_quality(analysis) ==
    LET priority == check_priority_content(analysis)
        log1 == <<"Priority Content">>
        log2 == Append(log1, "Rich Cell")
        log3 == Append(log2, "First Row Only")
        log4 == Append(log3, "First Column Only")
        log5 == Append(log4, "Header Heavy")
        log6 == Append(log5, "Single Row/Col")
        log7 == Append(log6, "Meaningful Words")
    IN  IF DOMAIN analysis = {}
        THEN [decision |-> "GIBBERISH", reason |-> "No analysis data"]
        ELSE IF priority.found
        THEN Decision("USEFUL", priority.reason, log1)
        ELSE IF check_cell_word_count(analysis)
        THEN Decision("USEFUL", "Found cell with >5 meaningful words", log2)
        ELSE IF check_first_row_only_filled(analysis)
        THEN Decision("GIBBERISH", "Only header row filled (rest empty)", log3)
        ELSE IF check_first_column_only_filled(analysis)
        THEN Decision("GIBBERISH", "Only first column filled", log4)
        ELSE IF check_header_heavy_table(analysis)
        THEN Decision("GIBBERISH", "Header has >70% of content", log5)
        ELSE IF check_single_row_or_column_filled(analysis)
        THEN Decision("GIBBERISH", "Only 1 row or 1 column filled", log6)
        ELSE meaningful_words_check(analysis.meaningful_words, log7)

\* the size test with a strict row limit
is_small_key_value_table_strict(analysis) ==
    analysis.cols = SMALL_KV_COLS /\ analysis.rows < SMALL_KV_MAX_ROWS

\* the size test without the test on the columns
is_small_key_value_table_any_cols(analysis) ==
    analysis.rows <= SMALL_KV_MAX_ROWS

is_small_key_value_table(analysis) ==
    analysis.cols = SMALL_KV_COLS /\ analysis.rows <= SMALL_KV_MAX_ROWS

\* the tables from the current one on, the current one included
SubsequentTablesFromCurrent(all_tables, current_table_index) ==
    SubSeq(all_tables, current_table_index + 1, Len(all_tables))

\* table_logic.py 574-577: the tables after the current one
SubsequentTables(all_tables, current_table_index) ==
    SubSeq(all_tables, current_table_index + 2, Len(all_tables))

\* current_table_index = None
NoIndex == -1

\* has_context stands for "all_tables is not None"; current_table_index is
\* the 0-based position of the table in all_tables, or NoIndex
decide_table_quality_with_context(analysis, has_context, all_tables, current_table_index) ==
    LET is_small_kv == is_small_key_value_table(analysis)
        subsequent_tables ==
            IF current_table_index # NoIndex
            THEN SubsequentTables(all_tables, current_table_index)
            ELSE <<>>
        has_useful_subsequent_table ==
            \E k \in 1..Len(subsequent_tables) :
                decide_table_quality(subsequent_tables[k]).decision = "USEFUL"
    IN  IF ~is_small_kv \/ ~has_context
        THEN decide_table_quality(analysis)
        ELSE IF subsequent_tables = <<>>
        THEN decide_table_quality(analysis)
        ELSE IF ~has_useful_subsequent_table
        THEN Decision("GIBBERISH",
                      "Small key-value table with no useful tables after it",
                      <<"Small key-value table with only gibberish tables following">>)
        ELSE Decision("GIBBERISH",
                      "Small key-value table - metadata table with other tables present",
                      <<"Small key-value metadata table">>)

is_table_gibberish(table_analysis, has_context, all_tables, current_table_index) ==
    LET d == IF has_context
             THEN decide_table_quality_with_context(table_analysis, TRUE,
                                                    all_tables, current_table_index)
             ELSE decide_table_quality(table_analysis)
        is_gibberish == (d.decision = "GIBBERISH")
    IN  IF DOMAIN table_analysis = {}
        THEN [is_gibberish |-> TRUE, reason |-> "Empty or invalid table analysis",
              advanced_decision |-> "GIBBERISH", is_small_key_value |-> FALSE]
        ELSE [is_gibberish |-> is_gibberish,
              reason |-> d.reason,
              advanced_decision |-> d.decision,
              is_small_key_value |-> is_small_key_value_table(table_analysis)]

\* ----------------------------------------------------- is_page_gibberish
Monus(a, b) == Max2(0, a - b)

\* the word test with a strict threshold
words_outside_enough_strict(words_outside_tables) ==
    words_outside_tables > WORDS_OUTSIDE_TABLES_THRESHOLD

\* page_decider.py 92
words_outside_enough(words_outside_tables) ==
    words_outside_tables >= WORDS_OUTSIDE_TABLES_THRESHOLD

is_page_gibberish(doc_data) ==
    LET useful_table_count == doc_data.useful_table_count
        has_useful_tables == useful_table_count > 0
        words_outside_tables == doc_data.word_count_excluding_tables
        links_outside_tables == Monus(doc_data.link_count, doc_data.table_links_count)
        images_outside_tables == Monus(doc_data.image_count, doc_data.table_images_count)
        files_outside_tables == Monus(doc_data.file_ref_count, doc_data.table_files_count)
        mentions_outside_tables == Monus(doc_data.mention_count, doc_data.table_mentions_count)
        useful_indicators ==
              (IF has_useful_tables THEN <<"useful table(s)">> ELSE <<>>)
           \o (IF words_outside_enough(words_outside_tables)
               THEN <<"words outside tables">> ELSE <<>>)
           \o (IF links_outside_tables > 0 THEN <<"link(s) outside tables">> ELSE <<>>)
           \o (IF images_outside_tables > 0 THEN <<"image(s) outside tables">> ELSE <<>>)
           \o (IF files_outside_tables > 0 THEN <<"file reference(s) outside tables">> ELSE <<>>)
           \o (IF mentions_outside_tables > 0 THEN <<"user mention(s) outside tables">> ELSE <<>>)
        is_gibberish == Len(useful_indicators) = 0
    IN  IF DOMAIN doc_data = {}
        THEN [is_gibberish |-> TRUE, useful_indicators |-> <<>>,
              reason |-> "Empty or invalid document data"]
        ELSE [is_gibberish |-> is_gibberish,
              useful_table_count |-> useful_table_count,
              gibberish_table_count |-> doc_data.gibberish_table_count,
              total_tables |-> doc_data.num_tables,
              words_outside_tables |-> words_outside_tables,
              links_outside_tables |-> links_outside_tables,
              images_outside_tables |-> images_outside_tables,
              files_outside_tables |-> files_outside_tables,
              mentions_outside_tables |-> mentions_outside_tables,
              useful_indicators |-> useful_indicators,
              reason |-> IF is_gibberish THEN "No useful content found" ELSE "Useful"]

\* ------------------------------------------------------------ input pools
Plain(w) == Cell(FALSE, <<w>>)
Bold(w) == Cell(TRUE, <<w>>)
\* a cell of n meaningful words
Long(n) == Cell(FALSE, [i \in 1..n |-> "data"])
BoldLong(n) == Cell(TRUE, [i \in 1..n |-> "data"])

E == EmptyCell
A == Plain("Alice")
D == Plain("Done")

RowPool2 ==
    { <<E, E>>, <<A, E>>, <<E, A>>, <<A, A>>,
      <<Plain("Name"), Plain("Status")>>, <<A, D>>,
      <<Bold("Name"), Bold("Status")>>,
      <<E, Long(6)>>, <<E, Plain(URL_ITEM)>>, <<Plain(FILE_ITEM), E>>,
      <<Plain(IMAGE_ITEM), Plain(MENTION_ITEM)>> }

RowPool3 ==
    { <<E, E, E>>, <<A, E, E>>, <<E, A, E>>, <<E, E, A>>,
      <<Plain("Name"), Plain("Status"), E>>,
      <<Bold("Name"), Bold("Name"), E>>,
      <<Long(6), E, E>>, <<E, Long(6), E>>,
      <<E, E, Plain(MENTION_ITEM)>>, <<Plain(EG_ITEM), A, E>> }

\* all grids of 1..n rows drawn from a row pool
GridsOf(pool, n) == UNION {[1..k -> pool] : k \in 1..n}

\* a header row of 20 meaningful words over three data rows that hold two
\* meaningful words in all: bold header, header promoted by the short-cell
\* heuristic, and a header row that is not detected
HeaderRows20 ==
    { [c \in 1..4 |-> BoldLong(5)], [c \in 1..5 |-> Long(4)], [c \in 1..4 |-> Long(5)] }

TwoWordData(cols, p, q) ==
    [r \in 1..3 |->
        [c \in 1..cols |->
            LET pos == (r - 1) * cols + c
            IN  Cell(FALSE, (IF pos = p THEN <<"Alice">> ELSE <<>>)
                            \o (IF pos = q THEN <<"Alice">> ELSE <<>>))]]

HeaderHeavyGrids ==
    { <<h>> \o TwoWordData(Len(h), p, q) :
        h \in HeaderRows20, p \in 1..15, q \in 1..15 }

ScenarioGrid == << <<Plain("Name"), Plain("Status")>>, <<A, D>> >>

\* cells that mix index words, placeholder words and meaningful words;
\* "xxx" is a word of the placeholder vocabulary that is also a numeral
BucketGrids ==
    { << <<Plain("xxx"), D>>,
         <<Cell(FALSE, <<"Alice", "2", "Done", "xxx">>), Plain(EG_ITEM)>> >>,
      << <<Cell(FALSE, <<"aa", "Status", "data">>), Plain("iv")>> >> }

\* grids whose only link, image or file sits in a header cell
HeaderLinkGrids ==
    { << <<Bold(URL_ITEM), Bold("Name")>>, <<A, D>> >>,
      << <<Plain(URL_ITEM), Plain("Name")>>, <<E, E>> >>,
      << <<Bold(URL_ITEM), E>>, <<Bold("Name"), A>>, <<Bold("Name"), E>> >>,
      << <<Plain("Name"), E>>, <<Plain(FILE_ITEM), E>>, <<A, A>>, <<A, E>> >> }

\* grids of a single column, as a caller of the analysis may pass them
RowPool1 == { <<E>>, <<A>>, <<Plain("Name")>>, <<Bold("Name")>> }

TablePool ==
    GridsOf(RowPool2, MaxRows) \cup GridsOf(RowPool3, MaxRows)
        \cup HeaderHeavyGrids \cup {ScenarioGrid} \cup BucketGrids
        \cup GridsOf(RowPool1, MaxRows) \cup HeaderLinkGrids

\* the tables of the multi-table pages
KVUseful3 == << <<A, A>>, <<A, Long(6)>>, <<A, A>> >>
KVLink3   == << <<A, E>>, <<A, Plain(URL_ITEM)>>, <<A, E>> >>
KVEmpty4  == << <<A, E>>, <<A, E>>, <<A, E>>, <<A, E>> >>
KVWords4  == << <<A, A>>, <<A, A>>, <<A, A>>, <<E, A>> >>
TwoCol5   == << <<A, A>>, <<A, A>>, <<A, A>>, <<A, A>>, <<A, D>> >>
Wide3     == << <<Plain("Name"), Plain("Status"), A>>, <<A, A, A>>, <<A, A, A>> >>
Sparse3   == << <<E, E, E>>, <<E, A, E>>, <<E, E, A>> >>
Blank3    == << <<E, E, E>>, <<E, E>>, <<E>> >>
KVOne     == << <<E, A>> >>
TopHeavy3 == << <<Cell(FALSE, <<"Alice", "Alice">>), E, E>>, <<E, A, E>>, <<E, E, A>> >>

PagePool == {KVUseful3, KVLink3, KVEmpty4, KVWords4, TwoCol5,
             Wide3, Sparse3, Blank3, KVOne, TopHeavy3}

OutsideWords == {10, 29, 30, 35}

\* links / images / file_refs / mentions found by find_links_images
ScanPool ==
    { s \in [{"links", "images", "file_refs", "mentions"} -> 0..MaxScan] :
        Count({k \in DOMAIN s : s[k] > 0}) <= 1 }

\* ------------------------------------------------------------------ state
VARIABLES
    pc,               \* stage of the run
    tables,           \* the grids of extract_tables_from_markdown
    text_scan,        \* find_links_images(markdown_content)
    word_count,       \* structure["word_count"]: words outside tables
    table_summaries,  \* the analyses, in page order
    idx,              \* tables decided so far by collect_document_data
    decisions,        \* result of is_table_gibberish for each decided table
    useful_count,
    gibberish_count,
    doc_data,         \* collected_data
    page,             \* result of is_page_gibberish
    table_decisions,  \* decisions of the tool's main() loop
    table_tag,        \* the <table> element handed to _table_to_markdown
    md,               \* outcome of _table_to_markdown
    extracted,        \* extract_tables_from_markdown of the emitted text
    html_md,          \* outcome of convert_html_to_markdown
    driver,           \* the batch driver that runs
    batch_size,       \* argument of process_documents_batch
    documents,        \* input of process_documents_batch
    task,             \* per document: "pending", "running" or "done"
    permits,          \* free slots of the asyncio.Semaphore
    task_result,      \* per document: the record its task returned
    results,          \* the list returned by process_documents_batch
    report,           \* the counts main_async prints
    votes,            \* argument of decide_page_quality
    page_decision,    \* result of decide_page_quality
    files,            \* the .jsonl files on disk, by path
    CONFLUENCE_MARKDOWN_CACHE,  \* the module global of data_format.py
    jsonl_path,       \* argument of the last load_confluence_markdown_data
    markdown_cache,   \* what that call returned
    loads,            \* calls of load_confluence_markdown_data so far
    confluence_data,  \* result of the last lookup_confluence_data
    fetch_pc,         \* where _get_tasks_from_label_studio stands
    page_number,      \* its variable `page`
    all_tasks,        \* its variable all_tasks
    requested,        \* the pages it has requested, in order
    responses,        \* what the server answered, in order
    tasks_file,       \* the tasks_projectId_<id>.json it writes
    fetched,          \* what it returns
    input_lines,      \* the .jsonl file the evaluation tool reads
    loaded,           \* outcome of load_data
    mispredictions    \* outcome of save_mispredictions

pipeVars == <<pc, tables, text_scan, word_count, table_summaries, idx, decisions,
              useful_count, gibberish_count, doc_data, page, table_decisions>>
convVars == <<table_tag, md, extracted, html_md>>
batchVars == <<driver, batch_size, documents, task, permits, task_result, results, report>>
voteVars == <<votes, page_decision>>
cacheVars == <<files, CONFLUENCE_MARKDOWN_CACHE, jsonl_path, markdown_cache, loads,
               confluence_data>>
fetchVars == <<fetch_pc, page_number, all_tasks, requested, responses, tasks_file,
               fetched>>
metricVars == <<input_lines, loaded, mispredictions>>
toolVars == <<cacheVars, fetchVars, metricVars>>

vars == <<pipeVars, convVars, batchVars, voteVars, toolVars>>

NoData == <<>>

\* the parts of the program that a run does not exercise
IdlePipe ==
    /\ pc = "idle" /\ tables = <<>> /\ text_scan = NoData /\ word_count = 0
    /\ table_summaries = <<>> /\ idx = 0 /\ decisions = <<>>
    /\ useful_count = 0 /\ gibberish_count = 0
    /\ doc_data = NoData /\ page = NoData /\ table_decisions = <<>>
IdleConv ==
    table_tag = NoData /\ md = NoData /\ extracted = NoData /\ html_md = NoData
IdleBatch ==
    /\ driver = "" /\ batch_size = 0
    /\ documents = <<>> /\ task = <<>> /\ permits = 0
    /\ task_result = <<>> /\ results = NoData /\ report = NoData
IdleVote == votes = <<>> /\ page_decision = ""
IdleCache ==
    /\ files = NoData /\ CONFLUENCE_MARKDOWN_CACHE = NoData /\ jsonl_path = ""
    /\ markdown_cache = NoData /\ loads = 0 /\ confluence_data = NoData
IdleFetch ==
    /\ fetch_pc = "idle" /\ page_number = 0 /\ all_tasks = <<>> /\ requested = <<>>
    /\ responses = <<>> /\ tasks_file = NoData /\ fetched = NoData
IdleMetrics == input_lines = <<>> /\ loaded = NoData /\ mispredictions = NoData
IdleTools == IdleCache /\ IdleFetch /\ IdleMetrics

InitWith(ts, scan, wc) ==
    /\ IdleConv /\ IdleBatch /\ IdleVote /\ IdleTools
    /\ pc = "collecting"
    /\ tables = ts
    /\ text_scan = scan
    /\ word_count = wc
    /\ table_summaries = <<>>
    /\ idx = 0
    /\ decisions = <<>>
    /\ useful_count = 0
    /\ gibberish_count = 0
    /\ doc_data = NoData
    /\ page = NoData
    /\ table_decisions = <<>>

Pages == UNION {[1..k -> PagePool] : k \in 0..MaxTables}

NoScan == [k \in {"links", "images", "file_refs", "mentions"} |-> 0]

\* the text outside the tables is varied on the pages of up to MaxDocTables
\* tables; longer pages carry 10 words and nothing else outside their tables
Init ==
    \E ts \in Pages, scan \in ScanPool, wc \in OutsideWords :
        /\ Len(ts) > MaxDocTables => scan = NoScan /\ wc = 10
        /\ InitWith(ts, scan, wc)

InitTable ==
    \E t \in TablePool, wc \in {10} :
        InitWith(<<t>>, NoScan, wc)

\* collect.py 73-79: analyse the next table
AnalyzeTable ==
    /\ pc = "collecting"
    /\ Len(table_summaries) < Len(tables)
    /\ table_summaries' =
           Append(table_summaries,
                  analyze_table_content(tables[Len(table_summaries) + 1]))
    /\ UNCHANGED <<pc, tables, text_scan, word_count, idx, decisions,
                   useful_count, gibberish_count, doc_data, page, table_decisions>>
    /\ UNCHANGED <<convVars, batchVars, voteVars, toolVars>>

\* collect.py 102-113: context-aware decision for table idx
DecideTable ==
    /\ pc = "collecting"
    /\ Len(table_summaries) = Len(tables)
    /\ idx < Len(table_summaries)
    /\ LET res == is_table_gibberish(table_summaries[idx + 1], TRUE,
                                     table_summaries, idx)
       IN  /\ decisions' = Append(decisions, res)
           /\ IF res.is_gibberish
              THEN gibberish_count' = gibberish_count + 1
                   /\ useful_count' = useful_count
              ELSE useful_count' = useful_count + 1
                   /\ gibberish_count' = gibberish_count
    /\ idx' = idx + 1
    /\ UNCHANGED <<pc, tables, text_scan, word_count, table_summaries,
                   doc_data, page, table_decisions>>
    /\ UNCHANGED <<convVars, batchVars, voteVars, toolVars>>

TableSum(f) == SeqSum([i \in 1..Len(table_summaries) |-> table_summaries[i][f]])

\* collect.py 116-166
Collect ==
    /\ pc = "collecting"
    /\ Len(table_summaries) = Len(tables)
    /\ idx = Len(table_summaries)
    /\ doc_data' =
          [num_tables |-> Len(tables),
           table_images_count |-> TableSum("images"),
           table_mentions_count |-> TableSum("mentions"),
           table_links_count |-> TableSum("links"),
           table_files_count |-> TableSum("files"),
           table_word_count |-> TableSum("words"),
           table_meaningful_words |-> TableSum("meaningful_words"),
           total_word_count |-> word_count,
           word_count_excluding_tables |-> word_count,
           link_count |-> text_scan.links,
           image_count |-> text_scan.images,
           file_ref_count |-> text_scan.file_refs,
           mention_count |-> text_scan.mentions,
           has_tables |-> Len(tables) > 0,
           has_useful_tables |-> IF table_summaries # <<>> THEN useful_count > 0 ELSE FALSE,
           useful_table_count |-> IF table_summaries # <<>> THEN useful_count ELSE 0,
           gibberish_table_count |-> IF table_summaries # <<>> THEN gibberish_count ELSE 0]
    /\ pc' = "collected"
    /\ UNCHANGED <<tables, text_scan, word_count, table_summaries, idx, decisions,
                   useful_count, gibberish_count, page, table_decisions>>
    /\ UNCHANGED <<convVars, batchVars, voteVars, toolVars>>

\* page_decider.py 35-128, as called by the batch drivers and decider.py
PageDecide ==
    /\ pc = "collected"
    /\ page' = is_page_gibberish(doc_data)
    /\ pc' = "done"
    /\ UNCHANGED <<tables, text_scan, word_count, table_summaries, idx, decisions,
                   useful_count, gibberish_count, doc_data, table_decisions>>
    /\ UNCHANGED <<convVars, batchVars, voteVars, toolVars>>

\* table_logic.py 1208-1215: the tool's own loop, without page context
MainDecideTable ==
    /\ pc \in {"collected", "main"}
    /\ Len(table_decisions) < Len(table_summaries)
    /\ table_decisions' =
           Append(table_decisions,
                  decide_table_quality(table_summaries[Len(table_decisions) + 1]))
    /\ pc' = "main"
    /\ UNCHANGED <<tables, text_scan, word_count, table_summaries, idx, decisions,
                   useful_count, gibberish_count, doc_data, page>>
    /\ UNCHANGED <<convVars, batchVars, voteVars, toolVars>>

Next ==
    \/ AnalyzeTable
    \/ DecideTable
    \/ Collect
    \/ PageDecide
    \/ MainDecideTable

Spec == Init /\ [][Next]_vars

SpecTable == InitTable /\ [][Next]_vars

\* ======================================================== conversion3.py
\* Text is a sequence of one-character strings.
SPACE == " "
NEWLINE == "\n"
PIPE == "|"
BACKSLASH == "\\"
DASH == "-"
STAR == "*"

RECURSIVE Join(_, _)
\* sep.join(parts)
Join(parts, sep) ==
    IF parts = <<>> THEN <<>>
    ELSE IF Len(parts) = 1 THEN parts[1]
    ELSE parts[1] \o sep \o Join(Tail(parts), sep)

RECURSIVE LStrip(_, _)
LStrip(s, chars) ==
    IF s # <<>> /\ Head(s) \in chars THEN LStrip(Tail(s), chars) ELSE s

RECURSIVE RStrip(_, _)
RStrip(s, chars) ==
    IF s # <<>> /\ s[Len(s)] \in chars
    THEN RStrip(SubSeq(s, 1, Len(s) - 1), chars) ELSE s

\* str.strip(chars)
StripChars(s, chars) == RStrip(LStrip(s, chars), chars)

WHITESPACE == {SPACE, NEWLINE}
\* str.strip()
Strip(s) == StripChars(s, WHITESPACE)

RECURSIVE Split(_, _)
\* str.split(sep) for a one-character separator
Split(s, sep) ==
    IF \A i \in 1..Len(s) : s[i] # sep THEN <<s>>
    ELSE LET k == CHOOSE i \in 1..Len(s) :
                     s[i] = sep /\ \A j \in 1..(i - 1) : s[j] # sep
         IN  <<SubSeq(s, 1, k - 1)>> \o Split(SubSeq(s, k + 1, Len(s)), sep)

\* str.splitlines(): no empty last line after a final newline
SplitLines(s) ==
    IF s = <<>> THEN <<>>
    ELSE IF s[Len(s)] = NEWLINE THEN Split(SubSeq(s, 1, Len(s) - 1), NEWLINE)
    ELSE Split(s, NEWLINE)

RECURSIVE CollapseSpaces(_)
\* re.sub(r'\s+', ' ', s)
CollapseSpaces(s) ==
    IF s = <<>> THEN <<>>
    ELSE IF Head(s) \in WHITESPACE
    THEN <<SPACE>> \o CollapseSpaces(LStrip(s, WHITESPACE))
    ELSE <<Head(s)>> \o CollapseSpaces(Tail(s))

\* _clean_whitespace(s, keep_newlines=False)
clean_whitespace(s) == Strip(CollapseSpaces(s))

RECURSIVE escape_pipe(_)
\* _escape_pipe: s.replace('|', '\\|')
escape_pipe(s) ==
    IF s = <<>> THEN <<>>
    ELSE (IF Head(s) = PIPE THEN <<BACKSLASH, PIPE>> ELSE <<Head(s)>>)
             \o escape_pipe(Tail(s))

\* ---- the <table> element
\* a cell is a <th> or <td> with its visible text and its colspan attribute
NoAttr == "<absent>"
MarkupCell(name, text, colspan) == [name |-> name, text |-> text, colspan |-> colspan]
\* a table is its caption text and its <tr> elements, each a sequence of cells
TableTag(caption, trs) == [caption |-> caption, rows_all |-> trs]

Raised(kind, message) == [raised |-> TRUE, error |-> kind, message |-> message]
Returned(text) == [raised |-> FALSE, text |-> text]

\* int(cell.get('colspan', 1)) on the attribute values of the vocabulary
int_colspan(colspan) ==
    CASE colspan = NoAttr -> [ok |-> TRUE, value |-> 1]
      [] colspan = "1"    -> [ok |-> TRUE, value |-> 1]
      [] colspan = "2"    -> [ok |-> TRUE, value |-> 2]
      [] colspan = " 2 "  -> [ok |-> TRUE, value |-> 2]
      [] colspan = "0"    -> [ok |-> TRUE, value |-> 0]
      [] colspan = "-1"   -> [ok |-> TRUE, value |-> -1]
      [] OTHER            -> [ok |-> FALSE, value |-> 0]

\* process_cell_content for a cell without macro and without date
process_cell_content(cell) == escape_pipe(clean_whitespace(cell.text))

\* n empty cell texts; none for n <= 0, as range(n) in the code
EmptyCells(n) == [j \in 1..Max2(0, n) |-> <<>>]

\* lines 450-457: the texts one <tr> contributes, colspan expanded
ExpandRow(tr) ==
    Flatten([k \in 1..Len(tr) |->
        <<process_cell_content(tr[k])>>
            \o EmptyCells(int_colspan(tr[k].colspan).value - 1)])

\* some cell of the <tr> carries a colspan that int() rejects
RowRaises(tr) == \E k \in 1..Len(tr) : ~int_colspan(tr[k].colspan).ok

\* the colspan value on which the loop of lines 448-457 stops
FirstBadColspan(rows_all) ==
    LET i == CHOOSE i \in 1..Len(rows_all) :
                 RowRaises(rows_all[i]) /\ \A j \in 1..(i - 1) : ~RowRaises(rows_all[j])
        tr == rows_all[i]
        k == CHOOSE k \in 1..Len(tr) :
                 /\ ~int_colspan(tr[k].colspan).ok
                 /\ \A j \in 1..(k - 1) : int_colspan(tr[j].colspan).ok
    IN  tr[k].colspan

has_th(tr) == \E k \in 1..Len(tr) : tr[k].name = "th"

\* "| " + " | ".join(cells) + " |"
PipeRow(cells) == <<PIPE, SPACE>> \o Join(cells, <<SPACE, PIPE, SPACE>>) \o <<SPACE, PIPE>>

PadTo(r, n) == r \o EmptyCells(n - Len(r))

SepCells(n) == [j \in 1..n |-> <<DASH, DASH, DASH>>]

\* lines 423-426
is_key_value_markup(rows_all) ==
    Len(rows_all) > 1 /\ \A i \in 1..Len(rows_all) : Len(rows_all[i]) = 2

\* lines 444-469: header row and data rows of the regular path
RegularRows(rows_all) ==
    LET nonempty == SelectSeq(rows_all, LAMBDA tr : Len(tr) > 0)
        hdr == {i \in 1..Len(nonempty) : has_th(nonempty[i])}
        h == IF hdr = {} THEN 0 ELSE CHOOSE i \in hdr : \A j \in hdr : i <= j
        expanded == [i \in 1..Len(nonempty) |-> ExpandRow(nonempty[i])]
    IN  [headers |-> IF h = 0 THEN <<>> ELSE expanded[h],
         rows |-> [i \in 1..(Len(nonempty) - (IF h = 0 THEN 0 ELSE 1)) |->
                      IF h # 0 /\ i >= h THEN expanded[i + 1] ELSE expanded[i]],
         max_cols |-> SeqMax([i \in 1..Len(nonempty) |-> Len(expanded[i])])]

\* the grid of cell texts that _table_to_markdown writes out, separator
\* row left out: header row first when there is one, every row max_cols wide
EmittedGrid(table) ==
    LET rows_all == table.rows_all
        reg == RegularRows(rows_all)
    IN  IF is_key_value_markup(rows_all)
        THEN [i \in 1..Len(rows_all) |->
                 <<process_cell_content(rows_all[i][1]),
                   process_cell_content(rows_all[i][2])>>]
        ELSE (IF reg.headers = <<>> THEN <<>> ELSE <<PadTo(reg.headers, reg.max_cols)>>)
                 \o [i \in 1..Len(reg.rows) |-> PadTo(reg.rows[i], reg.max_cols)]

table_to_markdown(table) ==
    LET rows_all == table.rows_all
        caption_text == clean_whitespace(table.caption)
        md_parts == IF caption_text # <<>>
                    THEN << <<STAR, STAR>> \o caption_text \o <<STAR, STAR, NEWLINE>> >>
                    ELSE <<>>
        reg == RegularRows(rows_all)
        grid == EmittedGrid(table)
        lines == [i \in 1..Len(grid) |-> PipeRow(grid[i])]
        kv_lines == <<lines[1], PipeRow(SepCells(2))>> \o Tail(lines)
        md_lines ==
            IF reg.headers # <<>>
            THEN <<lines[1], PipeRow(SepCells(reg.max_cols))>> \o Tail(lines)
            ELSE <<PipeRow(SepCells(reg.max_cols))>> \o lines
    IN  IF rows_all = <<>> THEN Returned(<<>>)
        ELSE IF is_key_value_markup(rows_all)
        THEN Returned(Join(kv_lines, <<NEWLINE>>) \o <<NEWLINE, NEWLINE>>)
        ELSE IF \E i \in 1..Len(rows_all) : RowRaises(rows_all[i])
        THEN Raised("ValueError",
                    "invalid literal for int() with base 10: '"
                        \o FirstBadColspan(rows_all) \o "'")
        ELSE IF reg.rows = <<>> /\ reg.headers = <<>> THEN Returned(<<>>)
        ELSE Returned(Join(Append(md_parts, Join(md_lines, <<NEWLINE>>)), <<NEWLINE>>)
                          \o <<NEWLINE, NEWLINE>>)

\* convert_html_to_markdown on a document whose only top-level node is the
\* table: nothing catches what _node_to_markdown raises; the two re.sub of
\* lines 714-716 leave a pipe table as it is (no run of three newlines, no
\* blank before a newline), then md.strip() + "\n"
convert_html_to_markdown(table) ==
    LET part == table_to_markdown(table)
    IN  IF part.raised THEN part
        ELSE Returned(Strip(IF Strip(part.text) # <<>> THEN part.text ELSE <<>>)
                         \o <<NEWLINE>>)

\* ---------------------------------- check_markdown.py: table extraction
SEPARATOR_CHARS == {DASH, ":", SPACE, NEWLINE}

is_separator_row(line) ==
    LET s == StripChars(Strip(line), {PIPE})
        parts == Split(s, PIPE)
    IN  \A k \in 1..Len(parts) :
            LET p == Strip(parts[k])
            IN  p # <<>> => \A i \in 1..Len(p) : p[i] \in SEPARATOR_CHARS

is_table_line(s) ==
    LET stripped == Strip(s)
        parts == Split(StripChars(stripped, {PIPE}), PIPE)
    IN  IF stripped = <<>> \/ \A i \in 1..Len(s) : s[i] # PIPE THEN FALSE
        ELSE Len(parts) > 1

RECURSIVE parse_loop(_, _, _, _, _)
\* lines 230-242: the loop over the characters of the row
parse_loop(s, i, cells, current_cell, escaped) ==
    IF i > Len(s) THEN [cells |-> cells, current_cell |-> current_cell]
    ELSE LET char == s[i]
         IN  IF char = BACKSLASH /\ ~escaped
             THEN parse_loop(s, i + 1, cells, current_cell, TRUE)
             ELSE IF char = PIPE /\ ~escaped
             THEN parse_loop(s, i + 1, Append(cells, Strip(current_cell)), <<>>, escaped)
             ELSE parse_loop(s, i + 1, cells, Append(current_cell, char), FALSE)

parse_cells(line) ==
    LET s == StripChars(Strip(line), {PIPE})
        end == parse_loop(s, 1, <<>>, <<>>, FALSE)
    IN  IF end.current_cell # <<>> \/ (s # <<>> /\ s[Len(s)] = PIPE)
        THEN Append(end.cells, Strip(end.current_cell))
        ELSE end.cells

\* flush_block: the tables list after the block is flushed
flush_block(tables_so_far, current_block) ==
    LET has_separator == \E k \in 1..Len(current_block) : is_separator_row(current_block[k])
        table_lines == SelectSeq(current_block,
                           LAMBDA l : Strip(l) # <<>> /\ ~is_separator_row(l))
        with_pipe == SelectSeq(table_lines, LAMBDA l : \E i \in 1..Len(l) : l[i] = PIPE)
        table == [k \in 1..Len(with_pipe) |-> parse_cells(with_pipe[k])]
    IN  IF Len(current_block) >= 2 /\ has_separator /\ table # <<>>
        THEN Append(tables_so_far, table)
        ELSE tables_so_far

RECURSIVE extract_loop(_, _, _, _)
\* lines 249-255
extract_loop(lines, i, tables_so_far, current_block) ==
    IF i > Len(lines) THEN flush_block(tables_so_far, current_block)
    ELSE IF is_table_line(lines[i])
    THEN extract_loop(lines, i + 1, tables_so_far, Append(current_block, lines[i]))
    ELSE extract_loop(lines, i + 1, flush_block(tables_so_far, current_block), <<>>)

extract_tables_from_markdown(text) ==
    LET split == SplitLines(text)
        lines == [k \in 1..Len(split) |-> RStrip(split[k], WHITESPACE)]
    IN  IF text = <<>> THEN <<>> ELSE extract_loop(lines, 1, <<>>, <<>>)

\* ------------------------------------------------ markup of the tables
T_a == <<"a">>
T_empty == <<>>
T_dash == <<DASH>>
T_pipe == <<"a", PIPE, "a">>
T_backslash_pipe == <<BACKSLASH, PIPE>>
T_backslash == <<"a", BACKSLASH>>
T_spaced == <<"a", SPACE, SPACE, "a">>

\* the cell texts of one <tr>
ConvRowPool ==
    { <<T_a>>, <<T_empty>>,
      <<T_a, T_a>>, <<T_empty, T_empty>>, <<T_a, T_empty>>, <<T_empty, T_a>>,
      <<T_dash, T_dash>>, <<T_pipe, T_a>>, <<T_backslash_pipe, T_a>>,
      <<T_a, T_backslash>>, <<T_spaced, T_a>>,
      <<T_a, T_a, T_a>>, <<T_empty, T_empty, T_empty>> }

\* a table without colspan; with_th makes the cells of the first <tr> <th>
PlainTable(caption, texts, with_th) ==
    TableTag(caption,
        [i \in 1..Len(texts) |->
            [k \in 1..Len(texts[i]) |->
                MarkupCell(IF with_th /\ i = 1 THEN "th" ELSE "td", texts[i][k], NoAttr)]])

ColspanValues == {"2", " 2 ", "0", "-1", "", "abc", "2.5"}

\* tables with a colspan attribute on their first cell
ColspanTables ==
    UNION { { TableTag(<<>>, << <<MarkupCell("td", T_a, v), MarkupCell("td", T_a, NoAttr)>> >>),
              TableTag(<<>>, << <<MarkupCell("th", T_a, v)>>,
                                <<MarkupCell("td", T_a, NoAttr), MarkupCell("td", T_a, NoAttr)>> >>),
              TableTag(<<>>, << <<MarkupCell("td", T_a, v), MarkupCell("td", T_a, NoAttr)>>,
                                <<MarkupCell("td", T_a, NoAttr), MarkupCell("td", T_a, NoAttr)>> >>) }
            : v \in ColspanValues }

MarkupPool ==
    { PlainTable(cap, texts, with_th) :
        cap \in {<<>>, <<"c">>},
        texts \in UNION {[1..n -> ConvRowPool] : n \in 1..MaxTrs},
        with_th \in BOOLEAN }
    \cup ColspanTables
    \cup { TableTag(<<>>, <<>>), TableTag(<<>>, << <<>> >>) }

InitConv ==
    /\ IdlePipe /\ IdleBatch /\ IdleVote /\ IdleTools
    /\ table_tag \in MarkupPool
    /\ md = NoData
    /\ extracted = NoData
    /\ html_md = NoData

\* conversion3.py 378-505
TableToMarkdown ==
    /\ table_tag # NoData
    /\ md = NoData
    /\ md' = table_to_markdown(table_tag)
    /\ UNCHANGED <<table_tag, extracted, html_md, pipeVars, batchVars, voteVars, toolVars>>

\* check_markdown.py 176-256 on the text the converter returned
ExtractTables ==
    /\ md # NoData
    /\ ~md.raised
    /\ extracted = NoData
    /\ extracted' = [tables |-> extract_tables_from_markdown(md.text)]
    /\ UNCHANGED <<table_tag, md, html_md, pipeVars, batchVars, voteVars, toolVars>>

\* conversion3.py 689-718
ConvertHtml ==
    /\ table_tag # NoData
    /\ html_md = NoData
    /\ html_md' = convert_html_to_markdown(table_tag)
    /\ UNCHANGED <<table_tag, md, extracted, pipeVars, batchVars, voteVars, toolVars>>

NextConv ==
    \/ TableToMarkdown
    \/ ExtractTables
    \/ ConvertHtml

SpecConv == InitConv /\ [][NextConv]_vars

\* ------------------------------------- markdown handed to the extractor
L_row == <<"a", SPACE, PIPE, SPACE, "a">>
L_separator == <<DASH, SPACE, PIPE, SPACE, DASH>>
L_escaped == <<"a", SPACE, BACKSLASH, PIPE, SPACE, "a">>
L_escaped_separator == <<DASH, SPACE, BACKSLASH, PIPE, SPACE, DASH>>
L_one_cell == <<PIPE, SPACE, "a", SPACE, PIPE>>
L_text == <<"a">>
L_blank == <<>>

LinePool == {L_row, L_separator, L_escaped, L_escaped_separator, L_one_cell,
             L_text, L_blank}

\* the lines of a document joined by newlines
JoinLines(lines) ==
    Flatten([k \in 1..Len(lines) |->
                IF k < Len(lines) THEN Append(lines[k], NEWLINE) ELSE lines[k]])

MarkdownPool ==
    { JoinLines(lines) : lines \in UNION {[1..n -> LinePool] : n \in 1..MaxLines} }

InitExtract ==
    /\ IdlePipe /\ IdleBatch /\ IdleVote /\ IdleTools
    /\ table_tag = NoData
    /\ md \in { Returned(text) : text \in MarkdownPool }
    /\ extracted = NoData
    /\ html_md = NoData

NextExtract == ExtractTables

SpecExtract == InitExtract /\ [][NextExtract]_vars

\* ================================================= Analysis/10K_sample.py
\* dict.get(key, default)
Get(doc, key, default) == IF key \in DOMAIN doc THEN doc[key] ELSE default

SumOver(summaries, f) == SeqSum([i \in 1..Len(summaries) |-> summaries[i][f]])

\* collect.py 138-166: the record collect_document_data returns
DocumentData(doc, analyses, gibberish_n) ==
    [num_tables |-> Len(doc.tables),
     table_images_count |-> SumOver(analyses, "images"),
     table_mentions_count |-> SumOver(analyses, "mentions"),
     table_links_count |-> SumOver(analyses, "links"),
     table_files_count |-> SumOver(analyses, "files"),
     table_word_count |-> SumOver(analyses, "words"),
     table_meaningful_words |-> SumOver(analyses, "meaningful_words"),
     total_word_count |-> doc.word_count,
     word_count_excluding_tables |-> doc.word_count,
     link_count |-> doc.text_scan.links,
     image_count |-> doc.text_scan.images,
     file_ref_count |-> doc.text_scan.file_refs,
     mention_count |-> doc.text_scan.mentions,
     has_tables |-> Len(doc.tables) > 0,
     has_useful_tables |-> Len(analyses) - gibberish_n > 0,
     useful_table_count |-> Len(analyses) - gibberish_n,
     gibberish_table_count |-> gibberish_n]

\* collect.py 111-127: the tables of the page judged gibberish, each in the
\* context of the whole list
GibberishTables(analyses) ==
    Count({i \in 1..Len(analyses) :
              is_table_gibberish(analyses[i], TRUE, analyses, i - 1).is_gibberish})

AnalyzeAll(ts) == [i \in 1..Len(ts) |-> analyze_table_content(ts[i])]

Summarize(doc, analyses) ==
    [raised |-> FALSE, data |-> DocumentData(doc, analyses, GibberishTables(analyses))]

\* an exception of the first step passes through the second
Then(first, second) == IF first.raised THEN first ELSE second

\* collect.py 45-166 as a function of the document. The document carries
\* the table markup of its body (or none) and what the body holds otherwise:
\* the grids of its tables, the text scan and the words outside tables.
collect_document_data(doc) ==
    Then(IF doc.table_tag = NoData THEN Returned(<<>>)
         ELSE convert_html_to_markdown(doc.table_tag),
         Summarize(doc, AnalyzeAll(doc.tables)))

\* the classes that "except Exception" catches
EXCEPTION_CLASSES == {"ValueError", "RuntimeError", "KeyError", "AttributeError", "TypeError"}

\* a handler that names one class only
caught_runtime_error_only(error) == error = "RuntimeError"

\* 10K_sample.py 66: except Exception as e
caught(error) == error \in EXCEPTION_CLASSES

\* 10K_sample.py 52-73: the record of one document
ResultRecord(doc, index, decision) ==
    [url |-> Get(doc, "url", ""),
     decision |-> decision,
     index |-> index,
     page_title |-> Get(doc, "title", "")]

\* decider_label_studio.py 53-71: doc.copy() with the "result" key set
WithResult(doc, result) == [result |-> result] @@ doc

\* Python's None in a result
None == "<None>"

\* the two batch drivers
SAMPLE_10K == "10K_sample"
LABEL_STUDIO == "decider_label_studio"
Drivers == {SAMPLE_10K, LABEL_STUDIO}

\* 10K_sample.py 59-64, decider_label_studio.py 53-62: the record of a
\* document that was processed
Processed(drv, doc, index, page_is_gibberish) ==
    IF drv = SAMPLE_10K
    THEN ResultRecord(doc, index, IF page_is_gibberish THEN "gibberish" ELSE "useful")
    ELSE WithResult(doc, [is_gibberish |-> IF page_is_gibberish THEN "yes" ELSE "no"])

\* 10K_sample.py 66-73, decider_label_studio.py 64-71: the record of a
\* document whose processing raised
Errored(drv, doc, index, message) ==
    IF drv = SAMPLE_10K
    THEN ResultRecord(doc, index, "error: " \o message)
    ELSE WithResult(doc, [is_gibberish |-> None,
                          status |-> "ERROR",
                          reason |-> "Processing error: " \o message,
                          error |-> message])

\* 10K_sample.py 51-73, decider_label_studio.py 44-71: what follows the
\* attempt to collect the document
Conclude(drv, doc, index, attempt) ==
    IF ~attempt.raised
    THEN [raised |-> FALSE,
          value |-> Processed(drv, doc, index,
                              is_page_gibberish(attempt.data).is_gibberish)]
    ELSE IF caught(attempt.error)
    THEN [raised |-> FALSE, value |-> Errored(drv, doc, index, attempt.message)]
    ELSE attempt

\* 10K_sample.py 40-73, decider_label_studio.py 34-71
process_document(drv, doc, index) ==
    Conclude(drv, doc, index, collect_document_data(doc))

\* ---- documents of the batches
BadTable == TableTag(<<>>, << <<MarkupCell("td", T_a, "abc"), MarkupCell("td", T_a, NoAttr)>> >>)
GoodTable == PlainTable(<<>>, << <<T_a, T_a>>, <<T_a, T_a>> >>, TRUE)

Body(tag, ts, wc) == [table_tag |-> tag, tables |-> ts, text_scan |-> NoScan, word_count |-> wc]

DocPool ==
    { Body(GoodTable, <<Wide3>>, 10) @@ [url |-> "u1", title |-> "t1"],
      Body(NoData, <<>>, 10) @@ [url |-> "u2", title |-> "t2"],
      Body(BadTable, <<Wide3>>, 35) @@ [url |-> "u3", title |-> "t3"],
      Body(NoData, <<>>, 35),
      Body(BadTable, <<>>, 10) @@ [url |-> "u5"] }

BatchSizes == {1, 2}

\* the messages of the exceptions the documents can raise: int() on each
\* colspan value it rejects
ErrorMessages ==
    { "invalid literal for int() with base 10: '" \o v \o "'" :
        v \in {x \in ColspanValues : ~int_colspan(x).ok} }

\* str.startswith("error:") on the decisions a record can hold
starts_with_error(decision) ==
    \E message \in ErrorMessages : decision = "error: " \o message

\* a test for the decision "error" itself
is_error_record_exact(drv, record) ==
    IF drv = SAMPLE_10K
    THEN Get(record, "decision", "") = "error"
    ELSE Get(Get(record, "result", <<>>), "status", None) = "error"

\* 10K_sample.py 171-182, decider_label_studio.py 168-179: the three tests
\* of the counts
is_gibberish_record(drv, record) ==
    IF drv = SAMPLE_10K
    THEN Get(record, "decision", None) = "gibberish"
    ELSE Get(Get(record, "result", <<>>), "is_gibberish", None) = "yes"

is_useful_record(drv, record) ==
    IF drv = SAMPLE_10K
    THEN Get(record, "decision", None) = "useful"
    ELSE Get(Get(record, "result", <<>>), "is_gibberish", None) = "no"

is_error_record(drv, record) ==
    IF drv = SAMPLE_10K
    THEN starts_with_error(Get(record, "decision", ""))
    ELSE Get(Get(record, "result", <<>>), "status", None) = "ERROR"

\* asyncio.Semaphore.acquire proceeds at once
can_enter_always(value) == TRUE

\* asyncio.Semaphore.acquire proceeds when the counter is positive
can_enter(value) == value > 0

InitBatch ==
    /\ IdlePipe /\ IdleConv /\ IdleVote /\ IdleTools
    /\ driver \in Drivers
    /\ batch_size \in BatchSizes
    /\ documents \in UNION {[1..n -> DocPool] : n \in 0..MaxDocs}
    /\ task = [i \in 1..Len(documents) |-> "pending"]
    /\ permits = batch_size
    /\ task_result = [i \in 1..Len(documents) |-> NoData]
    /\ results = NoData
    /\ report = NoData

\* process_with_semaphore: a task enters "async with semaphore"
Acquire(i) ==
    /\ results = NoData
    /\ task[i] = "pending"
    /\ can_enter(permits)
    /\ permits' = permits - 1
    /\ task' = [task EXCEPT ![i] = "running"]
    /\ UNCHANGED <<driver, batch_size, documents, task_result, results, report,
                   pipeVars, convVars, voteVars, toolVars>>

\* process_with_semaphore: process_document runs to its end and the slot is
\* freed
Process(i) ==
    /\ task[i] = "running"
    /\ task_result' = [task_result EXCEPT
                          ![i] = process_document(driver, documents[i], i - 1)]
    /\ task' = [task EXCEPT ![i] = "done"]
    /\ permits' = permits + 1
    /\ UNCHANGED <<driver, batch_size, documents, results, report,
                   pipeVars, convVars, voteVars, toolVars>>

\* process_documents_batch: gather returns the task results in task order,
\* or passes on the first exception a task raised
Gather ==
    /\ results = NoData
    /\ \A i \in 1..Len(documents) : task[i] = "done"
    /\ results' =
          IF \E i \in 1..Len(documents) : task_result[i].raised
          THEN [raised |-> TRUE, value |-> <<>>]
          ELSE [raised |-> FALSE,
                value |-> [i \in 1..Len(documents) |-> task_result[i].value]]
    /\ UNCHANGED <<driver, batch_size, documents, task, permits, task_result, report,
                   pipeVars, convVars, voteVars, toolVars>>

\* main_async: the three counts printed after the batch
Report ==
    /\ results # NoData
    /\ ~results.raised
    /\ report = NoData
    /\ report' =
          [gibberish_count |->
               Count({i \in 1..Len(results.value) :
                         is_gibberish_record(driver, results.value[i])}),
           useful_count |->
               Count({i \in 1..Len(results.value) :
                         is_useful_record(driver, results.value[i])}),
           error_count |->
               Count({i \in 1..Len(results.value) :
                         is_error_record(driver, results.value[i])})]
    /\ UNCHANGED <<driver, batch_size, documents, task, permits, task_result, results,
                   pipeVars, convVars, voteVars, toolVars>>

NextBatch ==
    \/ \E i \in 1..Len(documents) : Acquire(i)
    \/ \E i \in 1..Len(documents) : Process(i)
    \/ Gather
    \/ Report

SpecBatch == InitBatch /\ [][NextBatch]_vars

\* the step of a task from "running" to "done", whatever its result
Completes(i) ==
    /\ i <= Len(documents)
    /\ task[i] = "running"
    /\ task' = [task EXCEPT ![i] = "done"]

\* the event loop runs every task that can run: a task that can enter the
\* semaphore enters it, process_document has no await and runs to its end,
\* and gather returns once all tasks are done
SpecBatchFair ==
    /\ SpecBatch
    /\ \A i \in 1..(MaxDocs + 1) : WF_vars(i <= Len(documents) /\ Acquire(i))
    /\ \A i \in 1..(MaxDocs + 1) : WF_task(Completes(i))
    /\ WF_vars(Gather)

\* ===================================== table_logic.py: decide_page_quality
CountOf(seq, v) == Count({i \in 1..Len(seq) : seq[i] = v})

\* the aggregator with its two tests exchanged
decide_page_quality_gibberish_first(decision_list) ==
    LET useful_n == CountOf(decision_list, "USEFUL")
        gibberish_n == CountOf(decision_list, "GIBBERISH")
        total == Len(decision_list)
    IN  IF decision_list = <<>> THEN "GIBBERISH"
        ELSE IF 2 * gibberish_n >= total THEN "GIBBERISH"
        ELSE IF 2 * useful_n >= total THEN "USEFUL"
        ELSE "CAN'T DECIDE"

\* table_logic.py 1151-1166; count >= total * 0.5 is 2 * count >= total
decide_page_quality(decision_list) ==
    LET useful_n == CountOf(decision_list, "USEFUL")
        gibberish_n == CountOf(decision_list, "GIBBERISH")
        total == Len(decision_list)
    IN  IF decision_list = <<>> THEN "GIBBERISH"
        ELSE IF 2 * useful_n >= total THEN "USEFUL"
        ELSE IF 2 * gibberish_n >= total THEN "GIBBERISH"
        ELSE "CAN'T DECIDE"

TABLE_DECISIONS == {"USEFUL", "GIBBERISH", "CAN'T DECIDE"}

InitVote ==
    /\ IdlePipe /\ IdleConv /\ IdleBatch /\ IdleTools
    /\ votes \in UNION {[1..n -> TABLE_DECISIONS] : n \in 0..MaxVotes}
    /\ page_decision = ""

\* table_logic.py 1221
DecidePage ==
    /\ page_decision = ""
    /\ page_decision' = decide_page_quality(votes)
    /\ UNCHANGED <<votes, pipeVars, convVars, batchVars, toolVars>>

NextVote == DecidePage

SpecVote == InitVote /\ [][NextVote]_vars

\* ======================================================== properties
\* tables decided by the standard rule sequence (the tool's main loop)
Judged == 1..Len(table_decisions)
\* tables decided with page context by collect_document_data
Decided == 1..Len(decisions)

HasPriority(a) == a.links > 0 \/ a.files > 0 \/ a.images > 0 \/ a.mentions > 0

\* C1: a table analysis with any link, file, image or mention is judged
\* USEFUL by decide_table_quality whatever else it holds; the priority check
\* is the only rule evaluated, and the reason names the first kind present
\* in the order links, files, images, mentions.
C1_PriorityContentUseful ==
    \A i \in Judged :
        LET a == table_summaries[i]
            d == table_decisions[i]
        IN  HasPriority(a) =>
              /\ d.decision = "USEFUL"
              /\ d.decision_log = <<"Priority Content">>
              /\ (a.links > 0 => d.reason = "link(s) found (highest priority)")
              /\ (a.links = 0 /\ a.files > 0 => d.reason = "file(s) found (high priority)")
              /\ (a.links = 0 /\ a.files = 0 /\ a.images > 0 => d.reason = "image(s) found")
              /\ (a.links = 0 /\ a.files = 0 /\ a.images = 0 => d.reason = "user mention(s) found")

\* a table whose only priority content is a mention and whose data rows the
\* first structural check would reject
C1_Witness ==
    \E i \in Judged :
        LET a == table_summaries[i]
        IN  /\ a.links = 0 /\ a.files = 0 /\ a.images = 0 /\ a.mentions > 0
            /\ check_first_row_only_filled(a)
            /\ table_decisions[i].decision = "USEFUL"

\* the grid with one more link written into cell (r, c)
AddLink(table, r, c) ==
    LET norm_table == Normalize(table)
    IN  [norm_table EXCEPT ![r][c] = Cell(@.bold, Append(@.items, URL_ITEM))]

CellsOf(table) == {rc \in (1..NumRows(table)) \X (1..NumCols(table)) : TRUE}

\* C2: when a table is judged USEFUL, the same table with a link added to
\* any one cell is not judged GIBBERISH, by the standard rule sequence and
\* by the context-aware variant at the same position of the same page.
C2_MonotonicPriority ==
    /\ \A i \in Judged :
          table_decisions[i].decision = "USEFUL" =>
             \A rc \in CellsOf(tables[i]) :
                decide_table_quality(
                    analyze_table_content(AddLink(tables[i], rc[1], rc[2]))).decision
                  # "GIBBERISH"
    /\ \A i \in Decided :
          decisions[i].advanced_decision = "USEFUL" =>
             \A rc \in CellsOf(tables[i]) :
                LET a2 == analyze_table_content(AddLink(tables[i], rc[1], rc[2]))
                    all2 == [table_summaries EXCEPT ![i] = a2]
                IN  decide_table_quality_with_context(a2, TRUE, all2, i - 1).decision
                      # "GIBBERISH"

\* a link-free table judged USEFUL on its words, in both loops
C2_Witness ==
    /\ \E i \in Judged :
          /\ table_decisions[i].decision = "USEFUL"
          /\ ~HasPriority(table_summaries[i])
    /\ \E i \in Decided :
          /\ decisions[i].advanced_decision = "USEFUL"
          /\ ~HasPriority(table_summaries[i])

Outside(total, in_tables) == IF total - in_tables > 0 THEN total - in_tables ELSE 0

PageUsefulBy(d) ==
    \/ d.useful_table_count >= 1
    \/ d.word_count_excluding_tables >= 30
    \/ Outside(d.link_count, d.table_links_count) > 0
    \/ Outside(d.image_count, d.table_images_count) > 0
    \/ Outside(d.file_ref_count, d.table_files_count) > 0
    \/ Outside(d.mention_count, d.table_mentions_count) > 0

NoSignals(d) ==
    /\ d.num_tables = 0
    /\ d.link_count = 0 /\ d.image_count = 0
    /\ d.file_ref_count = 0 /\ d.mention_count = 0

NonHeaderCells(a) ==
    {rc \in (1..a.rows) \X (1..a.cols) : ~IsHeaderCell(a.headings, rc[1], rc[2])}

\* C5: without links, files, images and mentions, a table with a non-header
\* cell (a cell outside the detected header row and header column) of more
\* than 5 meaningful words is judged USEFUL by decide_table_quality.
C5_RichCellUseful ==
    \A i \in Judged :
        LET a == table_summaries[i]
        IN  /\ ~HasPriority(a)
            /\ \E rc \in NonHeaderCells(a) :
                   a.cell_metrics_grid[rc[1]][rc[2]].meaningful_words > 5
            => table_decisions[i].decision = "USEFUL"

\* meaningful words of the cells of row r, header cells included
RawRowWords(a, r) ==
    SeqSum([c \in 1..a.cols |-> a.cell_metrics_grid[r][c].meaningful_words])

RawTableWords(a) == SeqSum([r \in 1..a.rows |-> RawRowWords(a, r)])

\* C6: with no priority content, no cell above 5 meaningful words and
\* neither of the two earlier structural checks firing, a table whose
\* header row holds more than 70% of all meaningful words of the table is
\* judged GIBBERISH, however the header row was detected.
C6_HeaderHeavyGibberish ==
    \A i \in Judged :
        LET a == table_summaries[i]
        IN  /\ ~HasPriority(a)
            /\ \A r \in 1..a.rows : \A c \in 1..a.cols :
                   a.cell_metrics_grid[r][c].meaningful_words <= 5
            /\ ~check_first_row_only_filled(a)
            /\ ~check_first_column_only_filled(a)
            /\ a.rows > 1
            /\ RawRowWords(a, 1) * 100 > 70 * RawTableWords(a)
            => table_decisions[i].decision = "GIBBERISH"

NoEarlierRule(a) ==
    /\ ~HasPriority(a)
    /\ ~check_cell_word_count(a)
    /\ ~check_first_row_only_filled(a)
    /\ ~check_first_column_only_filled(a)
    /\ ~check_header_heavy_table(a)
    /\ ~check_single_row_or_column_filled(a)

\* C7: when no earlier rule matches, the verdict is USEFUL for a total of at
\* least 3 meaningful words, GIBBERISH for 0 and CAN'T DECIDE for 1 or 2;
\* every verdict is one of the three, and CAN'T DECIDE is returned in no
\* other situation.
C7_FinalRules ==
    \A i \in Judged :
        LET a == table_summaries[i]
            d == table_decisions[i].decision
        IN  /\ d \in {"USEFUL", "GIBBERISH", "CAN'T DECIDE"}
            /\ (NoEarlierRule(a) /\ a.meaningful_words >= 3 => d = "USEFUL")
            /\ (NoEarlierRule(a) /\ a.meaningful_words = 0 => d = "GIBBERISH")
            /\ (NoEarlierRule(a) /\ a.meaningful_words \in {1, 2} => d = "CAN'T DECIDE")
            /\ (d = "CAN'T DECIDE" => NoEarlierRule(a) /\ a.meaningful_words \in {1, 2})

\* a table of exactly 3 meaningful words that reaches the final rules
C7_Witness ==
    \E i \in Judged :
        /\ NoEarlierRule(table_summaries[i])
        /\ table_summaries[i].meaningful_words = 3
        /\ table_decisions[i].decision = "USEFUL"

\* the page holds two tables, table i is the 2-column, 3-row one and the
\* other table's verdict is USEFUL
KVPair(i, j) ==
    /\ Len(tables) = 2 /\ Len(decisions) = 2
    /\ {i, j} = {1, 2}
    /\ table_summaries[i].cols = 2 /\ table_summaries[i].rows = 3
    /\ decisions[j].advanced_decision = "USEFUL"

C9_NameStatusScenario ==
    \A i \in Judged :
        tables[i] = ScenarioGrid =>
            LET a == table_summaries[i]
            IN  /\ a.headings.heading_type = "column"
                /\ a.cell_metrics_grid[2][2].placeholder_words = 1
                /\ a.cell_metrics_grid[2][2].meaningful_words = 0
                /\ a.cell_metrics_grid[2][1].meaningful_words = 1
                /\ table_decisions[i].decision = "GIBBERISH"

C9_Witness ==
    \E i \in Judged :
        /\ tables[i] = ScenarioGrid
        /\ table_decisions[i].decision = "GIBBERISH"

VerdictCount(v) == Count({i \in Decided : decisions[i].advanced_decision = v})

\* C10: useful_table_count is the number of tables whose verdict is USEFUL
\* and gibberish_table_count the number whose verdict is GIBBERISH; so a
\* page whose only table is CAN'T DECIDE, with fewer than 30 words and no
\* link, image, file or mention outside tables, is a GIBBERISH page.
C10_TableCounts ==
    /\ pc \in {"collected", "main", "done"} =>
          /\ doc_data.useful_table_count = VerdictCount("USEFUL")
          /\ doc_data.gibberish_table_count = VerdictCount("GIBBERISH")
    /\ pc = "done"
       /\ Len(decisions) = 1
       /\ decisions[1].advanced_decision = "CAN'T DECIDE"
       /\ page.words_outside_tables < 30
       /\ page.links_outside_tables = 0 /\ page.images_outside_tables = 0
       /\ page.files_outside_tables = 0 /\ page.mentions_outside_tables = 0
       => page.is_gibberish

\* C11: whenever _table_to_markdown emits a non-empty pipe table, re-parsing
\* that text with extract_tables_from_markdown gives exactly one grid, with
\* as many rows as the grid the converter wrote (separator row not counted)
\* and with that grid's number of columns in every row.
C11_RoundTripShape ==
    (extracted # NoData /\ md.text # <<>>) =>
        LET written == EmittedGrid(table_tag)
        IN  /\ Len(extracted.tables) = 1
            /\ Len(extracted.tables[1]) = Len(written)
            /\ \A r \in 1..Len(written) :
                   Len(extracted.tables[1][r]) = Len(written[1])

\* C13: convert_html_to_markdown returns a text for every table markup,
\* whatever the colspan attributes of its cells are; nothing is raised.
C13_ConversionNeverRaises ==
    html_md # NoData => ~html_md.raised

\* the words of cell (r, c) of page table i, as cell_metrics extracts them
CellWords(i, r, c) == AllWords(Normalize(tables[i])[r][c])

\* C12: cell_metrics puts every word of a cell into exactly one of the
\* buckets index, placeholder, meaningful: a word matching the index pattern
\* is an index word, any other word of the placeholder vocabulary is a
\* placeholder word, the rest are meaningful; the reported placeholder_words
\* is placeholder plus index, so meaningful + placeholder_words = words.
C12_WordPartition ==
    \A i \in 1..Len(table_summaries) :
        LET a == table_summaries[i]
        IN  \A r \in 1..a.rows : \A c \in 1..a.cols :
                LET m == a.cell_metrics_grid[r][c]
                    ws == CellWords(i, r, c)
                    index == {k \in 1..Len(ws) : is_index_pattern(ws[k])}
                    placeholder == {k \in 1..Len(ws) : /\ k \notin index
                                                       /\ Lower(ws[k]) \in PLACEHOLDER_WORDS}
                    meaningful == (1..Len(ws)) \ (index \cup placeholder)
                IN  /\ m.words = Len(ws)
                    /\ m.index_words = Count(index)
                    /\ m.placeholder_words = Count(placeholder) + Count(index)
                    /\ m.meaningful_words = Count(meaningful)
                    /\ m.meaningful_words + m.placeholder_words = m.words

\* an analysed cell with a word in each bucket, one of its index words being
\* a word of the placeholder vocabulary
C12_Witness ==
    \E i \in 1..Len(table_summaries) :
        LET a == table_summaries[i]
        IN  \E r \in 1..a.rows : \E c \in 1..a.cols :
                LET m == a.cell_metrics_grid[r][c]
                    ws == CellWords(i, r, c)
                IN  /\ m.meaningful_words > 0
                    /\ m.index_words > 0
                    /\ m.placeholder_words > m.index_words
                    /\ \E k \in 1..Len(ws) :
                           is_index_pattern(ws[k]) /\ Lower(ws[k]) \in PLACEHOLDER_WORDS

\* C14: once the batch has been gathered it did not abort, there is exactly
\* one record per input document at the document's position with index equal
\* to that position, each record keeps the document's url and title, a
\* document whose processing raised has decision "error: <message>", and every
\* other document has decision "useful" or "gibberish".
C14_FailureIsolation ==
    (results # NoData /\ driver = SAMPLE_10K) =>
        /\ ~results.raised
        /\ Len(results.value) = Len(documents)
        /\ \A i \in 1..Len(documents) :
              LET doc == documents[i]
                  record == results.value[i]
                  failure == IF doc.table_tag = NoData THEN Returned(<<>>)
                             ELSE convert_html_to_markdown(doc.table_tag)
              IN  /\ DOMAIN record = {"url", "decision", "index", "page_title"}
                  /\ record.index = i - 1
                  /\ record.url = (IF "url" \in DOMAIN doc THEN doc.url ELSE "")
                  /\ record.page_title = (IF "title" \in DOMAIN doc THEN doc.title ELSE "")
                  /\ failure.raised => record.decision = "error: " \o failure.message
                  /\ ~failure.raised => record.decision \in {"useful", "gibberish"}

\* a gathered batch of two documents in which the first raised and the second
\* did not, processed one at a time
C14_Witness ==
    /\ results # NoData
    /\ driver = SAMPLE_10K
    /\ Len(documents) = 2
    /\ documents[1].table_tag = BadTable
    /\ documents[2].table_tag # BadTable
    /\ results.value[1].decision = "error: invalid literal for int() with base 10: 'abc'"
    /\ results.value[2].decision = "useful"
    /\ results.value[2].index = 1

\* C15: every table-level result handed to the callers of is_table_gibberish
\* carries an evaluation log, and the log is the list of checks in rule order
\* up to and including the one that decided.
C15_DecisionCarriesLog ==
    \A i \in 1..Len(decisions) :
        /\ "decision_log" \in DOMAIN decisions[i]
        /\ \E n \in 1..Len(RULE_ORDER) :
               decisions[i].decision_log = SubSeq(RULE_ORDER, 1, n)

\* C16: the fill percentage recorded in an analysis is the share of filled
\* cells among the cells outside the detected header row and header column,
\* and lies between 0 and 100.
C16_FillOverNonHeaderCells ==
    \A i \in 1..Len(table_summaries) :
        LET analysis == table_summaries[i]
            grid == analysis.cell_metrics_grid
            non_header == {rc \in (1..analysis.rows) \X (1..analysis.cols) :
                              ~IsHeaderCell(analysis.headings, rc[1], rc[2])}
            filled == {rc \in non_header : ~grid[rc[1]][rc[2]].empty}
        IN  /\ analysis.fill_percentage = Percentage(Count(filled), Count(non_header))
            /\ analysis.fill_percentage \in 0..10000

C18_MajorityVote ==
    page_decision # "" =>
        LET useful_n == CountOf(votes, "USEFUL")
            gibberish_n == CountOf(votes, "GIBBERISH")
        IN  /\ 2 * useful_n >= Len(votes) => page_decision = "USEFUL"
            /\ 2 * gibberish_n >= Len(votes) => page_decision = "GIBBERISH"
            /\ (2 * useful_n < Len(votes) /\ 2 * gibberish_n < Len(votes)) =>
                   page_decision = "CAN'T DECIDE"

\* C18: for an empty list the aggregator returns GIBBERISH; otherwise USEFUL
\* when at least half of the decisions are USEFUL, else GIBBERISH when at
\* least half are GIBBERISH, else CAN'T DECIDE.
C18_MajorityVoteUsefulFirst ==
    page_decision # "" =>
        LET useful_n == CountOf(votes, "USEFUL")
            gibberish_n == CountOf(votes, "GIBBERISH")
        IN  /\ votes = <<>> => page_decision = "GIBBERISH"
            /\ (votes # <<>> /\ 2 * useful_n >= Len(votes)) => page_decision = "USEFUL"
            /\ (votes # <<>> /\ 2 * useful_n < Len(votes)
                    /\ 2 * gibberish_n >= Len(votes)) => page_decision = "GIBBERISH"
            /\ (votes # <<>> /\ 2 * useful_n < Len(votes)
                    /\ 2 * gibberish_n < Len(votes)) => page_decision = "CAN'T DECIDE"

\* an even split between USEFUL and GIBBERISH has been aggregated
C18_Witness ==
    /\ votes = <<"GIBBERISH", "USEFUL">>
    /\ page_decision = "USEFUL"

\* C19: a table without priority content and without a rich cell whose rows
\* after row 0 all have zero meaningful words and zero links is judged
\* GIBBERISH for the reason "only header row filled", whatever its size.
C19_OnlyHeaderFilled ==
    \A i \in 1..Len(table_decisions) :
        LET analysis == table_summaries[i]
            per_row == analysis.per_row_summaries
        IN  (/\ ~check_priority_content(analysis).found
             /\ ~check_cell_word_count(analysis)
             /\ analysis.rows >= 1
             /\ \A r \in 2..Len(per_row) :
                    per_row[r].meaningful_words = 0 /\ per_row[r].links = 0) =>
                /\ table_decisions[i].decision = "GIBBERISH"
                /\ table_decisions[i].reason = "Only header row filled (rest empty)"

\* C20: when no priority content, no rich cell and none of the three earlier
\* structural checks applies, a table in which exactly one row after row 0,
\* or exactly one column other than a detected header column, holds a
\* meaningful word below row 0 is judged GIBBERISH.
C20_SingleRowOrColumn ==
    \A i \in 1..Len(table_decisions) :
        LET analysis == table_summaries[i]
            grid == analysis.cell_metrics_grid
            data_rows == 2..analysis.rows
            data_cols == IF analysis.headings.heading_type \in {"row", "both"}
                         THEN 2..analysis.cols ELSE 1..analysis.cols
            rows_filled == {r \in data_rows :
                               \E c \in 1..analysis.cols : grid[r][c].meaningful_words > 0}
            cols_filled == {c \in data_cols :
                               \E r \in data_rows : grid[r][c].meaningful_words > 0}
        IN  (/\ analysis.rows >= 1
             /\ ~check_priority_content(analysis).found
             /\ ~check_cell_word_count(analysis)
             /\ ~check_first_row_only_filled(analysis)
             /\ ~check_first_column_only_filled(analysis)
             /\ ~check_header_heavy_table(analysis)
             /\ (Count(rows_filled) = 1 \/ Count(cols_filled) = 1)) =>
                table_decisions[i].decision = "GIBBERISH"

\* C21: in an analysis the word totals and the per-row word sums are the sums
\* over the cells outside the detected header row and header column, the
\* link, image, file and mention totals are the sums over all cells, and a
\* table with a link in any cell, header cells included, is judged USEFUL.
C21_HeaderCellsExcludedFromWordsOnly ==
    \A i \in 1..Len(table_summaries) :
        LET analysis == table_summaries[i]
            grid == analysis.cell_metrics_grid
            type == analysis.headings.heading_type
            header(r, c) == \/ type \in {"column", "both"} /\ r = 1
                            \/ type \in {"row", "both"} /\ c = 1
            data(r, f) == SeqSum([c \in 1..analysis.cols |->
                                     IF header(r, c) THEN 0 ELSE grid[r][c][f]])
            all(r, f) == SeqSum([c \in 1..analysis.cols |-> grid[r][c][f]])
            data_total(f) == SeqSum([r \in 1..analysis.rows |-> data(r, f)])
            all_total(f) == SeqSum([r \in 1..analysis.rows |-> all(r, f)])
        IN  /\ analysis.words = data_total("words")
            /\ analysis.meaningful_words = data_total("meaningful_words")
            /\ analysis.placeholder_words = data_total("placeholder_words")
            /\ \A r \in 1..analysis.rows :
                   /\ analysis.per_row_summaries[r].word_count = data(r, "words")
                   /\ analysis.per_row_summaries[r].meaningful_words
                          = data(r, "meaningful_words")
                   /\ analysis.per_row_summaries[r].placeholder_words
                          = data(r, "placeholder_words")
            /\ analysis.links = all_total("links")
            /\ analysis.images = all_total("images")
            /\ analysis.files = all_total("files")
            /\ analysis.mentions = all_total("mentions")
            /\ (i <= Len(table_decisions) /\ all_total("links") > 0) =>
                   table_decisions[i].decision = "USEFUL"

\* a judged table whose only link sits in a bold header row that also holds
\* words, none of which are counted
C21_Witness ==
    /\ Len(table_decisions) = 1
    /\ tables[1] = << <<Bold(URL_ITEM), Bold("Name")>>, <<A, D>> >>
    /\ table_summaries[1].headings.heading_type = "column"
    /\ table_summaries[1].links = 1
    /\ table_summaries[1].words = 2
    /\ table_summaries[1].cell_metrics_grid[1][1].words > 0
    /\ table_decisions[1].decision = "USEFUL"

C23_ImplicitKeyValue ==
    \A i \in 1..Len(table_summaries) :
        LET grid == Normalize(tables[i])
            rows == Len(grid)
            filled(c) == Count({r \in 1..rows : grid[r][c].items # <<>>})
        IN  (/\ rows >= 1
             /\ NumCols(tables[i]) = 2
             /\ 2 * filled(1) >= rows
             /\ 2 * filled(2) <= rows) =>
                table_summaries[i].headings.heading_type \in {"row", "both"}

\* C24: a line of the markdown handed to the extractor is table-like only if
\* it holds a pipe that no backslash escapes and parses into two or more
\* cells, so every row of every extracted table has two or more cells.
C24_TableLineNeedsUnescapedPipe ==
    extracted # NoData =>
        /\ \A k \in 1..Len(SplitLines(md.text)) :
               LET line == SplitLines(md.text)[k]
                   unescaped_pipes == Len(parse_loop(line, 1, <<>>, <<>>, FALSE).cells)
               IN  is_table_line(line) =>
                       (unescaped_pipes > 0 /\ Len(parse_cells(line)) >= 2)
        /\ \A t \in 1..Len(extracted.tables) :
               \A r \in 1..Len(extracted.tables[t]) :
                   Len(extracted.tables[t][r]) >= 2

\* C25: whenever the markup table has a non-empty caption and the converter
\* emits a table for it, the text begins with the caption as a bold line.
C25_CaptionAboveTable ==
    (md # NoData /\ table_tag # NoData) =>
        LET caption_text == clean_whitespace(table_tag.caption)
            bold_line == <<STAR, STAR>> \o caption_text \o <<STAR, STAR, NEWLINE>>
        IN  (~md.raised /\ md.text # <<>> /\ caption_text # <<>>) =>
                /\ Len(md.text) > Len(bold_line)
                /\ SubSeq(md.text, 1, Len(bold_line)) = bold_line

\* C26: once the counts of a batch are taken, every output record is in
\* exactly one of the classes useful, gibberish and error, and the three
\* counts add up to the number of input documents, in both drivers.
C26_CountsPartition ==
    report # NoData =>
        /\ \A i \in 1..Len(results.value) :
               LET record == results.value[i]
               IN  Count({c \in {"useful", "gibberish", "error"} :
                             \/ c = "useful" /\ is_useful_record(driver, record)
                             \/ c = "gibberish" /\ is_gibberish_record(driver, record)
                             \/ c = "error" /\ is_error_record(driver, record)}) = 1
        /\ report.useful_count + report.gibberish_count + report.error_count
               = Len(documents)

\* the counts of a batch of the label-studio driver holding one errored and
\* one useful document
C26_Witness ==
    /\ report # NoData
    /\ driver = LABEL_STUDIO
    /\ Len(documents) = 2
    /\ report.error_count = 1
    /\ report.useful_count = 1
    /\ report.gibberish_count = 0

\* C27: at every moment at most batch_size documents are being processed and
\* the free slots of the semaphore are batch_size less the documents being
\* processed; and eventually the gather returns one result per document.
C27_BoundedConcurrency ==
    /\ [](LET running == {i \in 1..Len(documents) : task[i] = "running"}
          IN  /\ Count(running) <= batch_size
              /\ permits = batch_size - Count(running))
    /\ <>(/\ results # NoData
          /\ ~results.raised
          /\ Len(results.value) = Len(documents))

\* one document is being processed, the semaphore is exhausted and another
\* document, whose processing will fail, waits; the first one failed too
C27_Witness ==
    /\ batch_size = 1
    /\ Len(documents) = 2
    /\ documents[1].table_tag = BadTable
    /\ documents[2].table_tag = BadTable
    /\ task = <<"done", "running">>
    /\ permits = 0

\* ---------------------------------------------------------------------------
\* The exporter's lookup cache (label_studio/data_format.py)

MaxLoads == 2

SLASH == "/"
DIGITS == {"0", "1", "2", "3", "4", "5", "6", "7", "8", "9"}

\* a dict is a function from its keys; d[k] = v
EmptyDict == <<>>
DictSet(dict, k, v) == (k :> v) @@ dict

\* does text s carry the literal lit at position i
HasAt(s, i, lit) ==
    /\ i + Len(lit) - 1 <= Len(s)
    /\ SubSeq(s, i, i + Len(lit) - 1) = lit

\* the longest run of digits of s that starts at position i
DigitRun(s, i) ==
    LET stop == IF \E j \in i..Len(s) : s[j] \notin DIGITS
                THEN CHOOSE j \in i..Len(s) :
                         s[j] \notin DIGITS /\ \A k \in i..(j - 1) : s[k] \in DIGITS
                ELSE Len(s) + 1
    IN  SubSeq(s, i, stop - 1)

PAGES_LITERAL == <<"/", "p", "a", "g", "e", "s", "/">>
PAGE_ID_LITERAL == <<"p", "a", "g", "e", "I", "d", "=">>

\* re.search(r'/pages/(\d+)(?:/|$)', url): the positions where it matches
PagesMatches(url) ==
    {i \in 1..Len(url) :
        /\ HasAt(url, i, PAGES_LITERAL)
        /\ LET run == DigitRun(url, i + 7)
               after == i + 7 + Len(run)
           IN  /\ run # <<>>
               /\ (after > Len(url) \/ url[after] = SLASH)}

\* re.search(r'[?&]pageId=(\d+)', url): the positions where it matches
PageIdMatches(url) ==
    {i \in 1..Len(url) :
        /\ url[i] \in {"?", "&"}
        /\ HasAt(url, i + 1, PAGE_ID_LITERAL)
        /\ DigitRun(url, i + 8) # <<>>}

First(S) == CHOOSE i \in S : \A j \in S : i <= j

\* extract_page_id_from_url: [found |-> , id |-> ]
extract_page_id_from_url(url) ==
    IF url = <<>> THEN [found |-> FALSE]
    ELSE IF PagesMatches(url) # {}
    THEN [found |-> TRUE, id |-> DigitRun(url, First(PagesMatches(url)) + 7)]
    ELSE IF PageIdMatches(url) # {}
    THEN [found |-> TRUE, id |-> DigitRun(url, First(PageIdMatches(url)) + 8)]
    ELSE [found |-> FALSE]

\* f"id:{page_id}"
IdKey(page_id) == <<"i", "d", ":">> \o page_id

\* the lines of a .jsonl file: blank, not JSON, a JSON array, or a JSON object
BlankLine == [kind |-> "blank"]
InvalidLine == [kind |-> "invalid"]
ArrayLine == [kind |-> "array"]
ObjectLine(data) == [kind |-> "object", data |-> data]

RECURSIVE index_lines(_, _)
\* data_format.py 87-106: the loop over the lines, from the cache built so far;
\* record.get on a line that is not an object raises AttributeError
index_lines(lines, cache) ==
    IF lines = <<>> THEN [raised |-> FALSE, cache |-> cache]
    ELSE LET line == Head(lines)
         IN  IF line.kind \in {"blank", "invalid"}
             THEN index_lines(Tail(lines), cache)
             ELSE IF line.kind = "array"
             THEN [raised |-> TRUE, error |-> "AttributeError"]
             ELSE LET record == line.data
                      url == Get(record, "url", <<>>)
                      page_id == Get(record, "id", <<>>)
                      by_url == IF url # <<>>
                                THEN DictSet(cache, RStrip(Strip(url), {SLASH}), record)
                                ELSE cache
                      by_id == IF page_id # <<>>
                               THEN DictSet(by_url, IdKey(page_id), record)
                               ELSE by_url
                  IN  index_lines(Tail(lines), by_id)

\* the module global: None, or the dict of the first successful load
NoCache == [loaded |-> FALSE]
Cached(cache) == [loaded |-> TRUE, cache |-> cache]

\* the file that is not there
NoFile == [exists |-> FALSE]
File(lines) == [exists |-> TRUE, lines |-> lines]

\* load_confluence_markdown_data(path) when the global holds `global_cache`:
\* what it returns and what the global holds afterwards
load_reusing_cache(file, global_cache) ==
    [returns |-> global_cache.cache, global |-> global_cache]

load_confluence_markdown_data(file, global_cache) ==
    IF global_cache.loaded
    THEN load_reusing_cache(file, global_cache)
    ELSE IF ~file.exists
    THEN [returns |-> EmptyDict, global |-> global_cache]
    ELSE LET built == index_lines(file.lines, EmptyDict)
         IN  IF built.raised
             THEN [returns |-> EmptyDict, global |-> global_cache]
             ELSE [returns |-> built.cache, global |-> Cached(built.cache)]

\* lookup_confluence_data(url, markdown_cache)
lookup_confluence_data(url, cache) ==
    IF url = <<>> \/ cache = EmptyDict
    THEN [lookup_status |-> "no_url_or_cache"]
    ELSE LET normalized_url == RStrip(Strip(url), {SLASH})
             page_id == extract_page_id_from_url(url)
             record == IF normalized_url \in DOMAIN cache
                       THEN [found |-> TRUE, record |-> cache[normalized_url]]
                       ELSE IF page_id.found /\ IdKey(page_id.id) \in DOMAIN cache
                       THEN [found |-> TRUE, record |-> cache[IdKey(page_id.id)]]
                       ELSE [found |-> FALSE]
         IN  IF record.found
             THEN [k \in (DOMAIN record.record \ {"markdown_body"}) \cup {"lookup_status"} |->
                       IF k = "lookup_status" THEN "found" ELSE record.record[k]]
             ELSE [lookup_status |-> "not_found_in_cache"]

\* the vocabulary of the files
URL_PAGE_1 == <<"/", "p", "a", "g", "e", "s", "/", "1">>
URL_PAGE_2 == <<"/", "v", "?", "p", "a", "g", "e", "I", "d", "=", "2">>
URL_OTHER == <<"/", "x">>

Record1 == [url |-> URL_PAGE_1 \o <<SLASH>>, id |-> <<"1">>, title |-> <<"A">>,
            markdown_body |-> <<"a">>]
Record2 == [url |-> <<SPACE>> \o URL_OTHER, id |-> <<"2">>, title |-> <<"B">>]
Record1b == [id |-> <<"1">>, title |-> <<"C">>]

FilePool ==
    { NoFile,
      File(<<>>),
      File(<<ObjectLine(Record1)>>),
      File(<<BlankLine, ObjectLine(Record2), InvalidLine>>),
      File(<<ObjectLine(Record1), ObjectLine(Record1b)>>),
      File(<<ObjectLine(Record2), ArrayLine>>) }

Paths == {"a.jsonl", "b.jsonl"}

LookupUrls == {<<>>, URL_PAGE_1, URL_PAGE_2, URL_OTHER \o <<SLASH>>}

InitCache ==
    /\ IdlePipe /\ IdleConv /\ IdleBatch /\ IdleVote /\ IdleFetch /\ IdleMetrics
    /\ files \in [Paths -> FilePool]
    /\ CONFLUENCE_MARKDOWN_CACHE = NoCache
    /\ jsonl_path = ""
    /\ markdown_cache = NoData
    /\ loads = 0
    /\ confluence_data = NoData

\* data_format.py 377: one call of load_confluence_markdown_data
Load(path) ==
    /\ loads < MaxLoads
    /\ LET call == load_confluence_markdown_data(files[path], CONFLUENCE_MARKDOWN_CACHE)
       IN  /\ markdown_cache' = call.returns
           /\ CONFLUENCE_MARKDOWN_CACHE' = call.global
    /\ jsonl_path' = path
    /\ loads' = loads + 1
    /\ confluence_data' = NoData
    /\ UNCHANGED <<files, pipeVars, convVars, batchVars, voteVars, fetchVars, metricVars>>

\* data_format.py 284: one lookup in the cache the last load returned
Lookup(url) ==
    /\ loads > 0
    /\ confluence_data = NoData
    /\ confluence_data' = lookup_confluence_data(url, markdown_cache)
    /\ UNCHANGED <<files, CONFLUENCE_MARKDOWN_CACHE, jsonl_path, markdown_cache, loads,
                   pipeVars, convVars, batchVars, voteVars, fetchVars, metricVars>>

NextCache ==
    \/ \E path \in Paths : Load(path)
    \/ \E url \in LookupUrls : Lookup(url)

SpecCache == InitCache /\ [][NextCache]_vars

\* the index a load builds from the file at `path` alone
IndexOf(path) == load_confluence_markdown_data(files[path], NoCache).returns

\* C28: the lookup cache is not process-wide: every call of
\* load_confluence_markdown_data returns the index built from the path it was
\* given, whatever was loaded before
C28_LoadReadsOwnSource ==
    loads > 0 => markdown_cache = IndexOf(jsonl_path)

\* ---------------------------------------------------------------------------
\* The paginated fetch (label_studio/fetch_tasks.py)

MaxPages == 4

\* a response of the server: its status code and the JSON object of its body
Response(status_code, data) == [status_code |-> status_code, data |-> data]

\* the tasks a page can carry, told apart by their ids
TaskLists == {<<1>>, <<2, 3>>}

ResponsePool ==
    {Response(200, [tasks |-> ts]) : ts \in TaskLists}
        \cup {Response(200, [tasks |-> <<>>]), Response(200, [total |-> 0]),
              Response(401, [detail |-> "Invalid token"]),
              Response(500, [detail |-> "Server error"])}

\* fetch_tasks.py 33: response_data.get("tasks", [])
tasks_of(response) == Get(response.data, "tasks", <<>>)

breaks_on_status_only(response) == response.status_code # 200

\* fetch_tasks.py 29-35: the two breaks of the loop
breaks(response) ==
    \/ response.status_code # 200
    \/ tasks_of(response) = <<>>

InitFetch ==
    /\ IdlePipe /\ IdleConv /\ IdleBatch /\ IdleVote /\ IdleCache /\ IdleMetrics
    /\ fetch_pc = "loop"
    /\ page_number = 1
    /\ all_tasks = <<>>
    /\ requested = <<>>
    /\ responses = <<>>
    /\ tasks_file = NoData
    /\ fetched = NoData

\* fetch_tasks.py 19-38: one turn of the loop, the server answering `response`
GetPage(response) ==
    /\ fetch_pc = "loop"
    /\ page_number <= MaxPages
    /\ requested' = Append(requested, page_number)
    /\ responses' = Append(responses, response)
    /\ IF breaks(response)
       THEN /\ fetch_pc' = "after_loop"
            /\ UNCHANGED <<all_tasks, page_number>>
       ELSE /\ all_tasks' = all_tasks \o tasks_of(response)
            /\ page_number' = page_number + 1
            /\ UNCHANGED fetch_pc
    /\ UNCHANGED <<tasks_file, fetched, pipeVars, convVars, batchVars, voteVars,
                   cacheVars, metricVars>>

\* fetch_tasks.py 40-43: write the file and return
WriteAndReturn ==
    /\ fetch_pc = "after_loop"
    /\ tasks_file' = all_tasks
    /\ fetched' = [raised |-> FALSE, value |-> all_tasks]
    /\ fetch_pc' = "returned"
    /\ UNCHANGED <<page_number, all_tasks, requested, responses, pipeVars, convVars,
                   batchVars, voteVars, cacheVars, metricVars>>

NextFetch ==
    \/ \E response \in ResponsePool : GetPage(response)
    \/ WriteAndReturn

SpecFetch == InitFetch /\ [][NextFetch]_vars

\* the function runs on: after the loop it writes and returns
SpecFetchFair == SpecFetch /\ WF_vars(WriteAndReturn)

\* the tasks of the first n responses, in page order
TasksUpTo(n) == Flatten([k \in 1..Max2(0, n) |-> tasks_of(responses[k])])

\* an answer that is non-200 or carries no tasks
NonOkOrEmpty(response) ==
    \/ response.status_code # 200
    \/ "tasks" \notin DOMAIN response.data
    \/ response.data.tasks = <<>>

\* C29: pages are requested 1, 2, 3, ... in order; the loop goes on after a
\* 200 answer with tasks and stops at the first answer that is non-200 or has
\* no tasks, so it ends only on such an answer; the function then returns,
\* without an error, the tasks of the pages before that answer in page order,
\* which is also what it writes
C29_PaginatedFetch ==
    /\ [](/\ requested = [k \in 1..Len(requested) |-> k]
          /\ Len(responses) = Len(requested)
          /\ \A k \in 1..(Len(responses) - 1) : ~NonOkOrEmpty(responses[k])
          /\ fetch_pc = "loop" => \A k \in 1..Len(responses) : ~NonOkOrEmpty(responses[k])
          /\ fetch_pc # "loop" =>
                 /\ responses # <<>>
                 /\ NonOkOrEmpty(responses[Len(responses)])
                 /\ all_tasks = TasksUpTo(Len(responses) - 1)
          /\ fetch_pc = "returned" =>
                 /\ ~fetched.raised
                 /\ fetched.value = TasksUpTo(Len(responses) - 1)
                 /\ tasks_file = fetched.value)
    /\ []((responses # <<>> /\ NonOkOrEmpty(responses[Len(responses)]))
              => <>(fetch_pc = "returned"))

\* two pages of tasks, then a server error: the partial list comes back as
\* the result
C29_Witness ==
    /\ fetch_pc = "returned"
    /\ Len(responses) = 3
    /\ responses[3].status_code = 500
    /\ fetched = [raised |-> FALSE, value |-> <<2, 3, 1>>]

\* ---------------------------------------------------------------------------
\* The evaluation tool (main/metrics.py)

MaxRecords == 2

YES == <<"y", "e", "s">>
NO == <<"n", "o">>
N_A == <<"N", "/", "A">>
VALID_LABELS == {YES, NO}

\* the JSON values of result.is_gibberish: a string or null
JsonStr(text) == [type |-> "str", text |-> text]
JsonNull == [type |-> "null"]

\* `not value` for a JSON string or null
IsFalsy(value) == value.type = "null" \/ value.text = <<>>

\* value in ['yes', 'no']
InLabels(value) == value.type = "str" /\ value.text \in VALID_LABELS

\* value.strip(): None has no strip
StripValue(value) ==
    IF value.type = "str"
    THEN [raised |-> FALSE, value |-> JsonStr(Strip(value.text))]
    ELSE [raised |-> TRUE, error |-> "AttributeError"]

\* data.get('result', {}).get('is_gibberish', '')
prediction_of(data) == Get(Get(data, "result", <<>>), "is_gibberish", JsonStr(<<>>))

\* data.get('annotation', '').strip()
annotation_of(data) == Strip(Get(data, "annotation", <<>>))

\* metrics.py 56-95: what load_data does with one line
load_line(line) ==
    IF line.kind = "blank" THEN [step |-> "continue"]
    ELSE IF line.kind = "invalid" THEN [step |-> "skipped"]
    ELSE LET annotation == annotation_of(line.data)
             prediction == prediction_of(line.data)
         IN  IF annotation = <<>> THEN [step |-> "skipped"]
             ELSE IF IsFalsy(prediction) THEN [step |-> "skipped"]
             ELSE IF annotation \notin VALID_LABELS THEN [step |-> "skipped"]
             ELSE IF ~InLabels(prediction) THEN [step |-> "skipped"]
             ELSE [step |-> "append", annotation |-> annotation,
                   prediction |-> prediction.text]

RECURSIVE load_lines(_, _, _)
load_lines(lines, ground_truth, predictions) ==
    IF lines = <<>>
    THEN [raised |-> FALSE, ground_truth |-> ground_truth, predictions |-> predictions]
    ELSE LET did == load_line(Head(lines))
         IN  IF did.step = "append"
             THEN load_lines(Tail(lines), Append(ground_truth, did.annotation),
                             Append(predictions, did.prediction))
             ELSE load_lines(Tail(lines), ground_truth, predictions)

\* load_data(file_path)
load_data(lines) == load_lines(lines, <<>>, <<>>)

get_error_type(ground_truth, prediction) ==
    IF ground_truth = NO /\ prediction = YES
    THEN "False Positive (Useful marked as Gibberish)"
    ELSE IF ground_truth = YES /\ prediction = NO
    THEN "False Negative (Gibberish marked as Useful)"
    ELSE "Correct"

\* metrics.py 287-293
Misprediction(data, annotation, prediction) ==
    [url |-> Get(data, "url", N_A),
     title |-> Get(data, "title", N_A),
     ground_truth |-> annotation,
     prediction |-> prediction,
     error_type |-> get_error_type(annotation, prediction)]

\* metrics.py 269-297: what save_mispredictions does with one line
mispredict_line(line) ==
    IF line.kind = "blank" THEN [step |-> "continue"]
    ELSE IF line.kind = "invalid" THEN [step |-> "continue"]
    ELSE LET annotation == annotation_of(line.data)
             stripped == StripValue(prediction_of(line.data))
         IN  IF stripped.raised THEN [step |-> "raise", error |-> stripped.error]
             ELSE LET prediction == stripped.value
                  IN  IF annotation = <<>> \/ IsFalsy(prediction)
                      THEN [step |-> "continue"]
                      ELSE IF annotation \notin VALID_LABELS \/ ~InLabels(prediction)
                      THEN [step |-> "continue"]
                      ELSE IF annotation # prediction.text
                      THEN [step |-> "append",
                            misprediction |->
                                Misprediction(line.data, annotation, prediction.text)]
                      ELSE [step |-> "continue"]

RECURSIVE mispredict_lines(_, _)
mispredict_lines(lines, found) ==
    IF lines = <<>> THEN [raised |-> FALSE, value |-> found]
    ELSE LET did == mispredict_line(Head(lines))
         IN  IF did.step = "raise" THEN [raised |-> TRUE, error |-> did.error]
             ELSE IF did.step = "append"
             THEN mispredict_lines(Tail(lines), Append(found, did.misprediction))
             ELSE mispredict_lines(Tail(lines), found)

\* save_mispredictions(file_path, output_file)
save_mispredictions(lines) == mispredict_lines(lines, <<>>)

\* the records of the input file
Labelled(annotation, is_gibberish) ==
    ObjectLine([url |-> URL_PAGE_1, title |-> <<"A">>, annotation |-> annotation,
                result |-> [is_gibberish |-> is_gibberish]])

\* decider_label_studio.py 62-71: the record of a document that failed
ErroredRecord ==
    ObjectLine([url |-> URL_PAGE_1, title |-> <<"A">>, annotation |-> YES,
                result |-> [is_gibberish |-> JsonNull, status |-> "ERROR"]])

EvaluationLines ==
    { Labelled(YES, JsonStr(YES)),
      Labelled(YES, JsonStr(NO)),
      Labelled(NO, JsonStr(YES)),
      Labelled(<<SPACE>> \o NO, JsonStr(NO)),
      Labelled(<<"m", "a", "y", "b", "e">>, JsonStr(YES)),
      Labelled(<<>>, JsonStr(YES)),
      Labelled(NO, JsonStr(<<"u", "n", "k", "n", "o", "w", "n">>)),
      Labelled(NO, JsonStr(YES \o <<SPACE>>)),
      ObjectLine([title |-> <<"B">>, result |-> [is_gibberish |-> JsonStr(NO)]]),
      ObjectLine([title |-> <<"B">>, annotation |-> YES, decision |-> "gibberish"]),
      ErroredRecord,
      BlankLine,
      InvalidLine }

InitMetrics ==
    /\ IdlePipe /\ IdleConv /\ IdleBatch /\ IdleVote /\ IdleCache /\ IdleFetch
    /\ input_lines \in UNION {[1..n -> EvaluationLines] : n \in 0..MaxRecords}
    /\ loaded = NoData
    /\ mispredictions = NoData

\* metrics.py 340: main() loads the data first
LoadData ==
    /\ loaded = NoData
    /\ loaded' = load_data(input_lines)
    /\ UNCHANGED <<input_lines, mispredictions, pipeVars, convVars, batchVars, voteVars,
                   cacheVars, fetchVars>>

\* metrics.py 342-356: with at least one valid sample main() goes on to
\* save_mispredictions
SaveMispredictions ==
    /\ loaded # NoData
    /\ Len(loaded.ground_truth) # 0
    /\ mispredictions = NoData
    /\ mispredictions' = save_mispredictions(input_lines)
    /\ UNCHANGED <<input_lines, loaded, pipeVars, convVars, batchVars, voteVars,
                   cacheVars, fetchVars>>

NextMetrics == LoadData \/ SaveMispredictions

SpecMetrics == InitMetrics /\ [][NextMetrics]_vars

\* the lines load_data accepts whose annotation and prediction differ
Disagreeing ==
    SelectSeq(input_lines,
              LAMBDA line : /\ load_line(line).step = "append"
                            /\ load_line(line).annotation # load_line(line).prediction)

\* C30: save_mispredictions fails on no record, the records of errored
\* documents included, and its output is one entry for each record that
\* load_data accepts and whose annotation differs from its prediction
C30_MismatchesOfValidRecords ==
    mispredictions # NoData =>
        /\ ~mispredictions.raised
        /\ mispredictions.value =
               [k \in 1..Len(Disagreeing) |->
                   Misprediction(Disagreeing[k].data,
                                 load_line(Disagreeing[k]).annotation,
                                 load_line(Disagreeing[k]).prediction)]

====
